---- MODULE Spec2Model ----
(***************************************************************************)
(* Model of the templify export core: the heading numbering normalizer     *)
(* (src/lib/tiptap-utils.ts), the PDF layout engine and the Word engine    *)
(* (src/lib/pdf-export.ts): block flattening, run wrapping, line drawing,  *)
(* greedy pagination, the page-number pass, placeholder substitution and   *)
(* markup generation; the heading classification route and the preview of  *)
(* the editor (src/components/text-editor.tsx).                            *)
(*                                                                         *)
(* Text is modelled as a sequence of one-character strings, so that        *)
(* trimming, pattern matching, tokenizing and number formatting are        *)
(* computed character by character as the code computes them.              *)
(***************************************************************************)
EXTENDS Integers, Sequences, FiniteSets, TLC

VARIABLES
    currentNumbers,   \* tiptap-utils.ts:27  the normalizer's counter stack
    emitted,          \* log of the headings this normalizer instance has numbered
    last,             \* argument and result of the latest normalizer call
    numPc,            \* "ready" once an instance exists, "unused" otherwise
    block,            \* drawParagraphBlock: the paragraph block being drawn
    box,              \* drawParagraphBlock: ctx.layout.body
    lines,            \* drawParagraphBlock: the lines wrapRuns returned
    drawnLines,       \* what drawLineSegments has drawn, line by line
    paraPc,           \* position in drawParagraphBlock
    template,         \* buildPdfBytes: the fetched template (response.ok, page count)
    layout,           \* buildPdfBytes: the PdfLayout argument
    doc,              \* buildPdfBytes: content.content, the top-level nodes
    blocks,           \* renderRichContent: the flattened blocks
    outPages,         \* outputDoc's pages, contentPages being those after the first
    cursorY,          \* renderRichContent: cursorY, in quarter points
    placed,           \* where each block was measured and drawn
    pc,               \* position in buildPdfBytes
    table,            \* computeRowHeights: the table block it is given
    returnedHeights,  \* computeRowHeights: the array it returns
    entry,            \* which exportToWord was called: the rich or the plain-text one
    docx,             \* the fetched DOCX template (response.ok and its parts)
    docTitle,         \* ExportOptions.title
    docSubtitle,      \* ExportOptions.subtitle
    updatedXml,       \* buildDocxBlobFromTemplateRich: updatedXml
    richCtx,          \* RichContext: the zip's parts and the three id counters
    headingNumbers,   \* tiptapToOpenXmlBlocks: headingNumbers
    wordBlocks,       \* tiptapToOpenXmlBlocks: blocks
    nodeIndex,        \* tiptapToOpenXmlBlocks: how many nodes the loop has visited
    wordPc,           \* position in exportToWord
    saved,            \* what saveAs was given
    error,            \* the error the export rejected with
    renders,          \* two renders in flight, each with the state it created
    request,          \* heading-classify: the lines posted and the service's answer
    reply,            \* heading-classify: the route's response
    labels,           \* fetchHeadingLabels: what it hands to buildPdfBytes
    orderedCounter,   \* tiptapToOpenXmlBlocks: orderedCounter
    inOrderedList,    \* tiptapToOpenXmlBlocks: inOrderedList
    inputs,           \* text-editor.tsx: the dependencies of the preview effect at the last render
    mounted,          \* whether TextEditor is mounted
    effects,          \* one record per run of the preview effect (text-editor.tsx:89-135)
    previewUrl,       \* the state previewUrl (line 37)
    liveUrls,         \* the object URLs created and not revoked
    measured          \* for each block, the height measureBlockHeight returns and what drawBlock draws

numVars == <<currentNumbers, emitted, last, numPc>>

paraVars == <<block, box, lines, drawnLines, paraPc>>

pdfVars == <<template, layout, doc, blocks, outPages, cursorY, placed, pc>>

tableVars == <<table, returnedHeights>>

wordVars == <<entry, docx, docTitle, docSubtitle, updatedXml, richCtx, headingNumbers,
              wordBlocks, nodeIndex, wordPc, saved, error>>

classifyVars == <<request, reply, labels>>

listVars == <<orderedCounter, inOrderedList>>

previewVars == <<inputs, mounted, effects, previewUrl, liveUrls>>

measureVars == <<measured>>

vars == <<currentNumbers, emitted, last, numPc, block, box, lines, drawnLines, paraPc,
          template, layout, doc, blocks, outPages, cursorY, placed, pc, table, returnedHeights,
          entry, docx, docTitle, docSubtitle, updatedXml, richCtx, headingNumbers, wordBlocks,
          nodeIndex, wordPc, saved, error, renders, request, reply, labels,
          orderedCounter, inOrderedList,
          inputs, mounted, effects, previewUrl, liveUrls,
          measured>>

(***************************************************************************)
(* Bounds of the model.                                                    *)
(***************************************************************************)
\* number of heading lines fed to one normalizer instance
MaxHeadings == 5
\* number of characters of one paragraph's text
MaxTextLen == 5
\* number of top-level nodes of a document
MaxNodes == 3
\* number of rows of a table given to computeRowHeights
MaxRows == 2
\* number of top-level nodes of a document exported to Word
MaxBlocks == 2
\* number of lines posted to heading-classify
MaxLines == 2

(***************************************************************************)
(* Characters and strings.                                                 *)
(***************************************************************************)
Digits == <<"0", "1", "2", "3", "4", "5", "6", "7", "8", "9">>

\* /\d/
IsDigit(c) == \E i \in 1..10 : Digits[i] = c

\* /\s/ restricted to the whitespace of the model's alphabet
IsSpace(c) == c \in {" ", "\t"}

\* String.prototype.trim
RECURSIVE TrimStart(_)
TrimStart(s) ==
    IF s # <<>> /\ IsSpace(Head(s)) THEN TrimStart(Tail(s)) ELSE s

RECURSIVE TrimEnd(_)
TrimEnd(s) ==
    IF s # <<>> /\ IsSpace(s[Len(s)]) THEN TrimEnd(SubSeq(s, 1, Len(s) - 1)) ELSE s

Trim(s) == TrimEnd(TrimStart(s))

\* Number -> decimal string (template literal / Array.prototype.join)
RECURSIVE ToDigits(_)
ToDigits(n) ==
    IF n < 10 THEN <<Digits[n + 1]>>
    ELSE ToDigits(n \div 10) \o <<Digits[(n % 10) + 1]>>

\* numbers.join(".")
RECURSIVE JoinDot(_)
JoinDot(nums) ==
    IF nums = <<>> THEN <<>>
    ELSE IF Len(nums) = 1 THEN ToDigits(nums[1])
    ELSE ToDigits(nums[1]) \o <<".">> \o JoinDot(Tail(nums))

\* blocks.join("")
RECURSIVE Join(_)
Join(parts) == IF parts = <<>> THEN <<>> ELSE Head(parts) \o Join(Tail(parts))

\* numberedHeadingPattern: at the start of the string a numeric path (digits,
\* then any number of period-digits groups), an optional period, at least one
\* whitespace, then the rest of the line up to its end. The match is unique:
\* group 1 is the longest numeric path, the whitespace is consumed entirely.
\* index of the first character at or after i that is not a digit
RECURSIVE DigitsEnd(_, _)
DigitsEnd(s, i) ==
    IF i <= Len(s) /\ IsDigit(s[i]) THEN DigitsEnd(s, i + 1) ELSE i

\* <<index after the path, number of segments>> for a path whose n-th
\* segment ends right before i
RECURSIVE PathEnd(_, _, _)
PathEnd(s, i, n) ==
    IF i + 1 <= Len(s) /\ s[i] = "." /\ IsDigit(s[i + 1])
    THEN PathEnd(s, DigitsEnd(s, i + 1), n + 1)
    ELSE <<i, n>>

RECURSIVE SpacesEnd(_, _)
SpacesEnd(s, i) ==
    IF i <= Len(s) /\ IsSpace(s[i]) THEN SpacesEnd(s, i + 1) ELSE i

NoMatch == [ok |-> FALSE, prefix |-> <<>>, level |-> 0, title |-> <<>>]

\* numberedHeadingPattern.exec(trimmed): match[1] is prefix, match[2] is title,
\* level is match[1].split(".").length
numberedHeadingPattern(s) ==
    IF s = <<>> \/ ~IsDigit(s[1]) THEN NoMatch
    ELSE LET pe == PathEnd(s, DigitsEnd(s, 1), 1)
             afterDot == IF pe[1] <= Len(s) /\ s[pe[1]] = "." THEN pe[1] + 1 ELSE pe[1]
             afterWs == SpacesEnd(s, afterDot)
         IN  IF afterWs = afterDot THEN NoMatch
             ELSE [ok |-> TRUE,
                   prefix |-> SubSeq(s, 1, pe[1] - 1),
                   level |-> pe[2],
                   title |-> SubSeq(s, afterWs, Len(s))]

(***************************************************************************)
(* createNumberingNormalizer: the update of the counter stack.             *)
(***************************************************************************)
\* while (currentNumbers.length < level - 1) currentNumbers.push(1)
RECURSIVE PadOnes(_, _)
PadOnes(nums, n) ==
    IF Len(nums) < n THEN PadOnes(Append(nums, 1), n) ELSE nums

\* a branch for level > 1 that also increments the counter of a stack that
\* is longer than the level
DeeperLevelCountsOn(nums, level) ==
    LET padded == PadOnes(nums, level - 1)
    IN  SubSeq(IF Len(padded) >= level THEN [padded EXCEPT ![level] = @ + 1]
               ELSE Append(padded, 1), 1, level)

\* the branch for level > 1, lines 40-48
DeeperLevel(nums, level) ==
    LET padded == PadOnes(nums, level - 1)
        written == IF Len(padded) = level
                   THEN [padded EXCEPT ![level] = @ + 1]
                   ELSE IF Len(padded) > level
                        THEN [padded EXCEPT ![level] = 1]
                        ELSE Append(padded, 1)
    IN  SubSeq(written, 1, level)

\* a top-level heading that increments its counter and keeps the deeper ones
TopLevelKeepsDeeper(nums) ==
    IF nums = <<>> THEN <<1>> ELSE [nums EXCEPT ![1] = @ + 1]

\* the branch for level = 1, lines 37-38
TopLevel(nums) ==
    <<(IF Len(nums) >= 1 THEN nums[1] ELSE 0) + 1>>

NextNumbers(nums, level) ==
    IF level = 1 THEN TopLevel(nums) ELSE DeeperLevel(nums, level)

\* a heading text that puts a period after the number
HeadingTextWithPeriod(nums, title) == JoinDot(nums) \o <<".", " ">> \o title

\* `${currentNumbers.join(".")} ${match[2]}`
HeadingText(nums, title) == JoinDot(nums) \o <<" ">> \o title

\* the closure returned by createNumberingNormalizer, as a function of the
\* counter stack it closes over: the new stack and the NumberedHeading
NormalizeNumbering(nums, text) ==
    LET match == numberedHeadingPattern(Trim(text))
    IN  IF ~match.ok
        THEN [numbers |-> nums, text |-> text, isHeading |-> FALSE, level |-> 0]
        ELSE LET next == NextNumbers(nums, match.level)
             IN  [numbers |-> next,
                  text |-> HeadingText(next, match.title),
                  isHeading |-> TRUE,
                  level |-> match.level]

(***************************************************************************)
(* Input lines of the numbering specification.                             *)
(***************************************************************************)
AuthorNumbers == {1, 2}

\* levels of the author-written headings ("1.1.1" is level 3)
AuthorLevels == {1, 2, 3}

\* author-written numeric paths
AuthorPaths ==
    UNION { [1..n -> AuthorNumbers] : n \in AuthorLevels }

\* "<path> a": path, one space, title
CanonicalLines == { JoinDot(p) \o <<" ", "a">> : p \in AuthorPaths }

\* the same heading written with a trailing period, extra or surrounding whitespace
VariantLines ==
    { <<"1", ".", " ", "a">>,
      <<"2", ".", "1", ".", " ", "a">>,
      <<"1", " ", " ", "a">>,
      <<" ", "1", ".", "1", " ", "a", " ">>,
      <<"1", "2", " ", "a", " ", "b">> }

\* lines the pattern does not match
PlainLines ==
    { <<>>,
      <<"a">>,
      <<"a", " ", "1">>,
      <<"1", "a">>,
      <<"1", ".">>,
      <<"1", ".", "a">>,
      <<"1", ".", ".", " ", "a">>,
      <<".", "1", " ", "a">>,
      <<" ", "a", " ">> }

Lines == CanonicalLines \cup VariantLines \cup PlainLines

(***************************************************************************)
(* Specification of one normalizer instance.                               *)
(***************************************************************************)
NoCall == [input |-> <<>>, text |-> <<>>, isHeading |-> FALSE, level |-> 0, called |-> FALSE]

\* no normalizer instance exists
NumUnused == [currentNumbers |-> <<>>, emitted |-> <<>>, last |-> NoCall, numPc |-> "unused"]

\* one call of the returned closure
NormalizeLine ==
    /\ numPc = "ready"
    /\ Len(emitted) < MaxHeadings
    /\ \E text \in Lines :
         LET r == NormalizeNumbering(currentNumbers, text)
         IN  /\ currentNumbers' = r.numbers
             /\ last' = [input |-> text, text |-> r.text, isHeading |-> r.isHeading,
                         level |-> r.level, called |-> TRUE]
             /\ emitted' = IF r.isHeading
                           THEN Append(emitted, [level |-> r.level,
                                                 numbers |-> r.numbers,
                                                 text |-> r.text])
                           ELSE emitted
    /\ UNCHANGED numPc
    /\ UNCHANGED <<paraVars, pdfVars, tableVars, wordVars, renders, classifyVars, listVars, previewVars, measureVars>>

NumNext == NormalizeLine

(***************************************************************************)
(* Font metrics. pdf-lib's widthOfTextAtSize is outside the repository; it *)
(* is modelled as the sum of per-character advance widths times the font   *)
(* size, the bold faces being wider than the regular ones.                 *)
(***************************************************************************)
\* pickFont: the face chosen from ctx.headingFonts or ctx.fonts
pickFont(run, useHeadingFonts) ==
    [family |-> IF useHeadingFonts THEN "heading" ELSE "body",
     face |-> IF run.bold /\ run.italic THEN "boldItalic"
              ELSE IF run.bold THEN "bold"
              ELSE IF run.italic THEN "italic"
              ELSE "regular"]

\* advance width of one character at size 1
CharUnits(font, c) ==
    IF IsSpace(c) THEN 1
    ELSE IF font.face \in {"bold", "boldItalic"} THEN 3
    ELSE 2

RECURSIVE TextUnits(_, _)
TextUnits(font, text) ==
    IF text = <<>> THEN 0 ELSE CharUnits(font, Head(text)) + TextUnits(font, Tail(text))

\* font.widthOfTextAtSize(text, size)
widthOfTextAtSize(font, text, size) == TextUnits(font, text) * size

(***************************************************************************)
(* wrapRuns (pdf-export.ts:861-917).                                       *)
(***************************************************************************)
\* /^\s+$/.test(token)
RECURSIVE AllSpace(_)
AllSpace(text) ==
    IF text = <<>> THEN TRUE ELSE IsSpace(Head(text)) /\ AllSpace(Tail(text))

IsSpaceToken(token) == token # <<>> /\ AllSpace(token)

\* the longest prefix of text made of whitespace (ws = TRUE) or of
\* non-whitespace (ws = FALSE)
RECURSIVE TakeWhile(_, _)
TakeWhile(text, ws) ==
    IF text # <<>> /\ (IsSpace(Head(text)) <=> ws)
    THEN <<Head(text)>> \o TakeWhile(Tail(text), ws)
    ELSE <<>>

Drop(text, n) == SubSeq(text, n + 1, Len(text))

\* run.text.split(/(\s+)/): non-whitespace pieces (possibly empty) alternating
\* with the whitespace separators, which the capture group keeps
RECURSIVE SplitOnSpaces(_)
SplitOnSpaces(text) ==
    LET piece == TakeWhile(text, FALSE)
        rest == Drop(text, Len(piece))
        sep == TakeWhile(rest, TRUE)
    IN  IF rest = <<>> THEN <<piece>>
        ELSE <<piece, sep>> \o SplitOnSpaces(Drop(rest, Len(sep)))

\* pushLine
pushLine(st) ==
    [lines |-> Append(st.lines, st.currentLine), currentLine |-> <<>>, currentWidth |-> 0]

\* { ...run, text }
Segment(run, text) == [run EXCEPT !.text = text]

\* a tokenizer that treats whitespace as a mere separator
SkipsWhitespaceToo(token) == token = <<>> \/ AllSpace(token)

\* line 882: if (!token) continue
SkipToken(token) == token = <<>>

\* a line break decided without the width of the token about to be added
BreakIgnoringToken(currentWidth, tokenWidth, maxWidth, lineLen, isSpace) ==
    currentWidth > maxWidth /\ lineLen > 0 /\ ~isSpace

\* line 887: the line is closed before a token that does not fit
BreakBeforeToken(currentWidth, tokenWidth, maxWidth, lineLen, isSpace) ==
    currentWidth + tokenWidth > maxWidth /\ lineLen > 0 /\ ~isSpace

\* lines 892-899: character by character packing of a token wider than maxWidth
RECURSIVE PackChars(_, _, _, _, _, _)
PackChars(st, run, chars, font, size, maxWidth) ==
    IF chars = <<>> THEN st
    ELSE LET charWidth == widthOfTextAtSize(font, <<Head(chars)>>, size)
             st1 == IF st.currentWidth + charWidth > maxWidth /\ Len(st.currentLine) > 0
                    THEN pushLine(st) ELSE st
             st2 == [st1 EXCEPT !.currentLine = Append(@, Segment(run, <<Head(chars)>>)),
                                !.currentWidth = @ + charWidth]
         IN  PackChars(st2, run, Tail(chars), font, size, maxWidth)

\* lines 882-904: one token
WrapToken(st, run, token, size, useHeadingFonts, maxWidth) ==
    IF SkipToken(token) THEN st
    ELSE LET isSpace == IsSpaceToken(token)
             font == pickFont(run, useHeadingFonts)
             tokenWidth == widthOfTextAtSize(font, token, size)
             st1 == IF BreakBeforeToken(st.currentWidth, tokenWidth, maxWidth,
                                        Len(st.currentLine), isSpace)
                    THEN pushLine(st) ELSE st
         IN  IF tokenWidth > maxWidth
             THEN PackChars(st1, run, token, font, size, maxWidth)
             ELSE [st1 EXCEPT !.currentLine = Append(@, Segment(run, token)),
                              !.currentWidth = @ + tokenWidth]

RECURSIVE WrapTokens(_, _, _, _, _, _)
WrapTokens(st, run, tokens, size, useHeadingFonts, maxWidth) ==
    IF tokens = <<>> THEN st
    ELSE WrapTokens(WrapToken(st, run, Head(tokens), size, useHeadingFonts, maxWidth),
                    run, Tail(tokens), size, useHeadingFonts, maxWidth)

RECURSIVE WrapRunList(_, _, _, _, _)
WrapRunList(st, runs, size, useHeadingFonts, maxWidth) ==
    IF runs = <<>> THEN st
    ELSE WrapRunList(WrapTokens(st, Head(runs), SplitOnSpaces(Head(runs).text),
                                size, useHeadingFonts, maxWidth),
                     Tail(runs), size, useHeadingFonts, maxWidth)

\* { text: "" }: absent flags read as false
EmptySegment == [text |-> <<>>, bold |-> FALSE, italic |-> FALSE, underline |-> FALSE]

wrapRuns(runs, maxWidth, fontSize, useHeadingFonts) ==
    LET st == WrapRunList([lines |-> <<>>, currentLine |-> <<>>, currentWidth |-> 0],
                          runs, fontSize, useHeadingFonts, maxWidth)
        wrapped == IF Len(st.currentLine) > 0 THEN Append(st.lines, st.currentLine)
                   ELSE st.lines
    IN  IF wrapped = <<>> THEN << <<EmptySegment>> >> ELSE wrapped

(***************************************************************************)
(* drawLineSegments (pdf-export.ts:919-978). Horizontal positions are      *)
(* rational (halves for centring, 1/spaceCount for justification): a line  *)
(* is recorded with the common denominator den and each segment with the   *)
(* numerator xN of its x, so that x = xN / den exactly.                    *)
(***************************************************************************)
RECURSIVE LineWidthOf(_, _, _)
LineWidthOf(segments, size, useHeadingFonts) ==
    IF segments = <<>> THEN 0
    ELSE widthOfTextAtSize(pickFont(Head(segments), useHeadingFonts), Head(segments).text, size)
         + LineWidthOf(Tail(segments), size, useHeadingFonts)

\* lines 947-950: the characters of the whitespace-only segments
RECURSIVE SpaceChars(_)
SpaceChars(segments) ==
    IF segments = <<>> THEN 0
    ELSE (IF IsSpaceToken(Head(segments).text) THEN Len(Head(segments).text) ELSE 0)
         + SpaceChars(Tail(segments))

\* lines 941-944
canJustify(segments, align, isLastLine) ==
    /\ align = "justify"
    /\ ~isLastLine
    /\ \E i \in 1..Len(segments) : IsSpaceToken(segments[i].text)

\* lines 955-977: the drawText calls of one line, xN being the current x times den
RECURSIVE DrawSegments(_, _, _, _, _, _, _)
DrawSegments(segments, xN, den, size, useHeadingFonts, justify, extraSpace) ==
    IF segments = <<>> THEN <<>>
    ELSE LET seg == Head(segments)
             w == widthOfTextAtSize(pickFont(seg, useHeadingFonts), seg.text, size)
             \* extraPerSpace * segment.text.length, times den = 2 * spaceCount
             stretch == IF justify /\ IsSpaceToken(seg.text)
                        THEN 2 * extraSpace * Len(seg.text) ELSE 0
         IN  <<[text |-> seg.text, xN |-> xN, width |-> w,
                underlined |-> seg.underline /\ Trim(seg.text) # <<>>]>>
             \o DrawSegments(Tail(segments), xN + den * w + stretch, den, size,
                             useHeadingFonts, justify, extraSpace)

drawLineSegments(segments, bx, align, fontSize, useHeadingFonts, isLastLine) ==
    LET lineWidth == LineWidthOf(segments, fontSize, useHeadingFonts)
        justify == canJustify(segments, align, isLastLine)
        extraSpace == IF justify /\ bx.width - lineWidth > 0 THEN bx.width - lineWidth ELSE 0
        spaceCount == IF justify THEN SpaceChars(segments) ELSE 0
        den == 2 * (IF spaceCount > 0 THEN spaceCount ELSE 1)
        startN == IF Len(segments) > 0 /\ align = "center"
                  THEN den * bx.x + (den \div 2) * (bx.width - lineWidth)
                  ELSE IF Len(segments) > 0 /\ align = "right"
                  THEN den * (bx.x + bx.width - lineWidth)
                  ELSE den * bx.x
    IN  [den |-> den,
         isLastLine |-> isLastLine,
         segments |-> DrawSegments(segments, startN, den, fontSize, useHeadingFonts,
                                   justify, extraSpace)]

(***************************************************************************)
(* Paragraph blocks and boxes of the paragraph specification.              *)
(***************************************************************************)
\* ctx.bodyFontSize and ctx.headingFontSize (layout.body.fontSize, layout.headingFontSize)
FontSizes == [body |-> 1, heading |-> 2]

FontSizeOf(b) == IF b.isHeading THEN FontSizes.heading ELSE FontSizes.body

TextChars == {"a", " "}

ParaTexts == UNION { [1..n -> TextChars] : n \in 1..MaxTextLen }

\* the marks of a text node: bold, italic, underline
Styles ==
    { [bold |-> FALSE, italic |-> FALSE, underline |-> FALSE],
      [bold |-> TRUE, italic |-> FALSE, underline |-> TRUE],
      [bold |-> FALSE, italic |-> TRUE, underline |-> FALSE] }

Run(text, style) ==
    [text |-> text, bold |-> style.bold, italic |-> style.italic, underline |-> style.underline]

StylePairs == { p \in Styles \X Styles : p[1] # p[2] }

\* the runs of a paragraph: its text in one run, or cut into two runs of
\* different marks (adjacent text nodes of equal marks are one node)
RunLists ==
    { <<Run(t, st)>> : t \in ParaTexts, st \in Styles }
    \cup UNION { { <<Run(SubSeq(t, 1, k), p[1]), Run(Drop(t, k), p[2])>> :
                       k \in 1..(Len(t) - 1) } :
                 t \in ParaTexts, p \in StylePairs }

Aligns == {"left", "center", "right", "justify"}

BodyParagraphs ==
    { [type |-> "paragraph", runs |-> r, align |-> a, isHeading |-> FALSE] :
          r \in RunLists \cup {<<>>, <<Run(<<>>, CHOOSE st \in Styles : ~st.bold /\ ~st.italic)>>},
          a \in Aligns }

\* tiptapToPdfBlocks makes a heading block of one bold run
HeadingParagraphs ==
    { [type |-> "paragraph",
       runs |-> <<[text |-> t, bold |-> TRUE, italic |-> FALSE, underline |-> FALSE]>>,
       align |-> a, isHeading |-> TRUE] :
          t \in { u \in ParaTexts : Len(u) <= 3 }, a \in Aligns }

\* ctx.layout.body as drawParagraphBlock uses it: x and width
Boxes == { [x |-> 2, width |-> w] : w \in {1, 3, 4, 7} }

(***************************************************************************)
(* The render context, documents and layouts of buildPdfBytes.             *)
(***************************************************************************)
\* Math.max
MathMax(a, b) == IF a >= b THEN a ELSE b

\* reduce((sum, value) => sum + value, 0)
RECURSIVE Sum(_)
Sum(values) == IF values = <<>> THEN 0 ELSE Head(values) + Sum(Tail(values))

\* Vertical positions and heights are kept in quarter points, which keeps
\* lineHeight * 0.25 and bodyLineHeight * 0.5 whole.
Quarters(points) == 4 * points

\* pdf-export.ts:225-254
renderContext(L) ==
    [layout |-> L,
     bodyFontSize |-> L.body.fontSize,
     bodyLineHeight |-> L.body.lineHeight,
     headingFontSize |-> L.headingFontSize,
     headingLineHeight |-> MathMax(L.body.lineHeight, L.headingFontSize + 4)]

\* block.isHeading ? ctx.headingFontSize : ctx.bodyFontSize
fontSize(b, ctx) == IF b.isHeading THEN ctx.headingFontSize ELSE ctx.bodyFontSize

\* block.isHeading ? ctx.headingLineHeight : ctx.bodyLineHeight
lineHeight(b, ctx) == IF b.isHeading THEN ctx.headingLineHeight ELSE ctx.bodyLineHeight

\* the size the browser reports once the data URL has loaded, and 0 x 0 when
\* it fails to decode
getImageSize(src) ==
    CASE src = "data:28x8" -> [width |-> 28, height |-> 8]
      [] src = "data:56x16" -> [width |-> 56, height |-> 16]
      [] OTHER -> [width |-> 0, height |-> 0]

Plain == [bold |-> FALSE, italic |-> FALSE, underline |-> FALSE]

RECURSIVE Repeat(_, _)
Repeat(text, n) == IF n = 0 THEN <<>> ELSE text \o Repeat(text, n - 1)

\* a paragraph node: its text children with their marks, and attrs.textAlign
ParagraphNode(runs) == [type |-> "paragraph", runs |-> runs, textAlign |-> "none"]

TextNode(text) == ParagraphNode(<<Run(text, Plain)>>)

HeadingNode == TextNode(<<"1", ".", " ", "I", "n", "t", "r", "o">>)

HelloNode == TextNode(<<"H", "e", "l", "l", "o", " ", "w", "o", "r", "l", "d">>)

\* four words, which wrap into four lines of a 28 point body
LongNode == TextNode(Repeat(<<"H", "e", "l", "l", "o", " ">>, 3) \o <<"H", "e", "l", "l", "o">>)

ImageNode(src) == [type |-> "image", src |-> src]

Cell(text, colspan, rowspan) ==
    [content |-> IF text = <<>> THEN <<>> ELSE <<TextNode(text)>>,
     colspan |-> colspan, rowspan |-> rowspan]

\* two rows of two columns, the first row being one cell "A" of colspan 2
TableNode ==
    [type |-> "table",
     rows |-> << <<Cell(<<"A">>, 2, 1)>>, <<Cell(<<"b">>, 1, 1), Cell(<<>>, 1, 1)>> >>]

Nodes ==
    { HeadingNode, HelloNode, LongNode, ParagraphNode(<<>>), TableNode,
      ImageNode("data:28x8"), ImageNode("data:56x16"), ImageNode("data:broken") }

Docs == UNION { [1..n -> Nodes] : n \in 0..MaxNodes }

\* PdfLayout: the body region, the heading font size and the body alignment
Layouts ==
    { [body |-> [x |-> 2, y |-> 20, width |-> 28, height |-> h, lineHeight |-> 4,
                 fontSize |-> 2],
       headingFontSize |-> 3, bodyAlign |-> "left"] : h \in {12, 100} }

\* the template the fetch returns: response.ok and the page count of the PDF
Templates ==
    { [ok |-> TRUE, pageCount |-> 1], [ok |-> TRUE, pageCount |-> 2],
      [ok |-> FALSE, pageCount |-> 0] }

(***************************************************************************)
(* tiptapToPdfBlocks (pdf-export.ts:511-613).                              *)
(***************************************************************************)
\* lines 633-651
tiptapParagraphToPdf(node, defaultAlign) ==
    [type |-> "paragraph", runs |-> node.runs,
     align |-> IF node.textAlign = "none" THEN defaultAlign ELSE node.textAlign,
     isHeading |-> FALSE]

\* runs.map((run) => run.text).join("")
RECURSIVE fullText(_)
fullText(runs) == IF runs = <<>> THEN <<>> ELSE Head(runs).text \o fullText(Tail(runs))

\* lines 520-526 and 601: the paragraph that stands for an empty one
BlankParagraph(align) ==
    [type |-> "paragraph", runs |-> <<Run(<<>>, Plain)>>, align |-> align, isHeading |-> FALSE]

\* lines 518-541
ParagraphBlock(paragraph, normalized) ==
    IF normalized.isHeading
    THEN [type |-> "paragraph",
          runs |-> <<[text |-> normalized.text, bold |-> TRUE, italic |-> FALSE,
                      underline |-> FALSE]>>,
          align |-> paragraph.align, isHeading |-> TRUE]
    ELSE paragraph

\* lines 590-605
TableCell(cell, defaultAlign) ==
    [content |-> IF cell.content = <<>> THEN <<BlankParagraph("left")>>
                 ELSE [i \in 1..Len(cell.content) |->
                           tiptapParagraphToPdf(cell.content[i], defaultAlign)],
     colspan |-> cell.colspan, rowspan |-> cell.rowspan]

\* lines 587-610
TableBlock(node, defaultAlign) ==
    [type |-> "table",
     rows |-> [r \in 1..Len(node.rows) |->
                  [cells |-> [c \in 1..Len(node.rows[r]) |->
                                  TableCell(node.rows[r][c], defaultAlign)]]]]

\* a heading node, a list node and a list item of the TipTap document
HeadingOf(runs) == [type |-> "heading", runs |-> runs, textAlign |-> "none"]

ListNode(type, items) == [type |-> type, content |-> items]

ListItem(children) == [type |-> "listItem", content |-> children]

\* lines 615-631: the paragraphs of a list item, those of its nested lists
\* included, in encounter order
RECURSIVE extractListParagraphs(_)
extractListParagraphs(listItem) ==
    Join([c \in 1..Len(listItem.content) |->
        LET child == listItem.content[c]
        IN  IF child.type = "paragraph" THEN <<child>>
            ELSE IF child.type \in {"bulletList", "orderedList"}
            THEN Join([n \in 1..Len(child.content) |->
                          IF child.content[n].type = "listItem"
                          THEN extractListParagraphs(child.content[n]) ELSE <<>>])
            ELSE <<>>])

\* lines 2048-2065: the same function under another name
extractParagraphs(listItem) == extractListParagraphs(listItem)

\* the loops over the items of a list and over the paragraphs of each item
\* (lines 544-548 and 562-566)
ListParagraphs(node) ==
    Join([i \in 1..Len(node.content) |->
             IF node.content[i].type = "listItem"
             THEN extractListParagraphs(node.content[i]) ELSE <<>>])

\* the same loops in tiptapToOpenXmlBlocks (lines 1965-1969 and 1992-1996)
OpenXmlListParagraphs(node) ==
    Join([i \in 1..Len(node.content) |->
             IF node.content[i].type = "listItem"
             THEN extractParagraphs(node.content[i]) ELSE <<>>])

\* lines 543-577: one block per paragraph, the marker run first; index is a
\* local of the orderedList branch, set to 1 on entry.  The bullet character
\* is written *
ListBlocks(node, defaultAlign) ==
    LET paragraphs == ListParagraphs(node)
    IN  [k \in 1..Len(paragraphs) |->
            [type |-> "paragraph",
             runs |-> <<Run(IF node.type = "orderedList" THEN ToDigits(k) \o <<".", " ">>
                            ELSE <<"*", " ">>, Plain)>>
                         \o tiptapParagraphToPdf(paragraphs[k], defaultAlign).runs,
             align |-> tiptapParagraphToPdf(paragraphs[k], defaultAlign).align,
             isHeading |-> FALSE]]

\* the loop of lines 517-611; nums is the state of the numbering normalizer
RECURSIVE tiptapToPdfBlocks(_, _, _)
tiptapToPdfBlocks(nodes, nums, defaultAlign) ==
    IF nodes = <<>> THEN <<>>
    ELSE LET node == Head(nodes)
             paragraph == tiptapParagraphToPdf(node, defaultAlign)
             normalized == NormalizeNumbering(nums, fullText(paragraph.runs))
         IN  IF node.type \in {"paragraph", "heading"}
             THEN IF paragraph.runs = <<>>
                  THEN <<BlankParagraph(paragraph.align)>>
                           \o tiptapToPdfBlocks(Tail(nodes), nums, defaultAlign)
                  ELSE <<ParagraphBlock(paragraph, normalized)>>
                           \o tiptapToPdfBlocks(Tail(nodes), normalized.numbers, defaultAlign)
             ELSE IF node.type \in {"bulletList", "orderedList"}
             THEN ListBlocks(node, defaultAlign)
                      \o tiptapToPdfBlocks(Tail(nodes), nums, defaultAlign)
             ELSE IF node.type = "image"
             THEN (IF node.src # "" THEN <<[type |-> "image", src |-> node.src]>> ELSE <<>>)
                      \o tiptapToPdfBlocks(Tail(nodes), nums, defaultAlign)
             ELSE <<TableBlock(node, defaultAlign)>>
                      \o tiptapToPdfBlocks(Tail(nodes), nums, defaultAlign)

(***************************************************************************)
(* Measuring and drawing a block (pdf-export.ts:686-859).  Heights and     *)
(* vertical positions are in quarter points.                               *)
(***************************************************************************)
\* a measurement that takes every paragraph for one line, whatever the width
LinesMeasuredUnwrapped(b, width, ctx) == << b.runs >>

\* the lines measureBlockHeight (688-696) and computeRowHeights (847-849)
\* count for a paragraph
LinesMeasured(b, width, ctx) == wrapRuns(b.runs, width, fontSize(b, ctx), b.isHeading)

\* the lines drawParagraphBlock (712-719) and drawTableBlock (792-800) draw
\* for a paragraph
LinesDrawn(b, width, ctx) == wrapRuns(b.runs, width, fontSize(b, ctx), b.isHeading)

\* Math.max(lines.length * lineHeight, lineHeight): lines 697 and 850
ParagraphHeight(b, width, ctx) ==
    LET wrapped == LinesMeasured(b, width, ctx)
    IN  MathMax(Quarters(Len(wrapped) * lineHeight(b, ctx)), Quarters(lineHeight(b, ctx)))

\* size.height * scale, scale being Math.min(1, maxWidth / size.width), and 1
\* for an image of width 0; the sizes of the model scale to whole quarters
ScaledHeight(size, maxWidth) ==
    IF size.width > maxWidth
    THEN (Quarters(size.height) * maxWidth) \div size.width
    ELSE Quarters(size.height)

\* lines 760-767 and 828-835; the body width of the model is a multiple of
\* every column count
columnWidth(b, ctx) ==
    LET counts == { Sum([c \in 1..Len(b.rows[r].cells) |-> b.rows[r].cells[c].colspan]) :
                        r \in 1..Len(b.rows) } \cup {0}
        columnCount == MathMax(1, CHOOSE m \in counts : \A n \in counts : m >= n)
    IN  ctx.layout.body.width \div columnCount

\* block.rows.forEach((row, rowIndex) => row.cells.forEach(...)): the cells of
\* a table as pairs of row and position in the row
CellsOf(b) ==
    UNION { { <<r, c>> : c \in 1..Len(b.rows[r].cells) } : r \in 1..Len(b.rows) }

\* lines 844-852: what one cell asks of each row it spans
PerRow(cell, ctx, colWidth) ==
    LET cellWidth == colWidth * cell.colspan - 12
        height == Sum([p \in 1..Len(cell.content) |->
                          ParagraphHeight(cell.content[p], cellWidth, ctx)])
    IN  MathMax(Quarters(ctx.bodyLineHeight + 6), height \div cell.rowspan)

\* a loop that raises only the row the cell starts in
SpansFirstRowOnly(cell, rowIndex, r) == r = rowIndex

\* line 853: for (let r = rowIndex; r < rowIndex + cell.rowspan; r += 1)
SpansRow(cell, rowIndex, r) == rowIndex <= r /\ r < rowIndex + cell.rowspan

\* lines 840-859: every row starts at bodyLineHeight + 6 and is raised to
\* perRow + 6 by every cell that spans it.  A cell whose rowspan runs past the
\* last row writes Math.max(undefined, perRow + 6), which is NaN, at the
\* indices past the end of the array and so lengthens it.
computeRowHeights(b, ctx, colWidth) ==
    LET ends == { rc[1] + b.rows[rc[1]].cells[rc[2]].rowspan - 1 : rc \in CellsOf(b) }
                    \cup { Len(b.rows) }
    IN  [r \in 1..(CHOOSE m \in ends : \A n \in ends : m >= n) |->
            IF r > Len(b.rows) THEN "NaN"
            ELSE LET asked == { PerRow(b.rows[rc[1]].cells[rc[2]], ctx, colWidth) + Quarters(6) :
                                   rc \in { rc \in CellsOf(b) :
                                               SpansRow(b.rows[rc[1]].cells[rc[2]], rc[1], r) } }
                                  \cup { Quarters(ctx.bodyLineHeight + 6) }
                 IN  CHOOSE m \in asked : \A n \in asked : m >= n]

\* lines 827-838
measureTableHeight(b, ctx) ==
    Sum(computeRowHeights(b, ctx, columnWidth(b, ctx))) + 2 * ctx.bodyLineHeight

\* lines 686-709
measureBlockHeight(b, ctx) ==
    IF b.type = "paragraph" THEN ParagraphHeight(b, ctx.layout.body.width, ctx)
    ELSE IF b.type = "image"
    THEN ScaledHeight(getImageSize(b.src), ctx.layout.body.width) + Quarters(ctx.bodyLineHeight)
    ELSE measureTableHeight(b, ctx)

\* lines 711-739: the lines are drawn from cursorY down, one lineHeight each;
\* bottom is where the last drawn line ends, cursorY the value returned
drawParagraphBlock(b, y, ctx) ==
    LET wrapped == LinesDrawn(b, ctx.layout.body.width, ctx)
        bottom == y + Quarters(Len(wrapped) * lineHeight(b, ctx))
    IN  [top |-> y, bottom |-> bottom, cursorY |-> bottom + lineHeight(b, ctx)]

\* lines 741-756: nothing is drawn for an image without a size
drawImageBlock(b, y, ctx) ==
    LET size == getImageSize(b.src)
        height == ScaledHeight(size, ctx.layout.body.width)
    IN  IF size.width = 0 \/ size.height = 0
        THEN [top |-> y, bottom |-> y, cursorY |-> y + Quarters(ctx.bodyLineHeight)]
        ELSE [top |-> y, bottom |-> y + height,
              cursorY |-> y + height + 2 * ctx.bodyLineHeight]

\* lines 771-823: where the rectangle and the text of the cell c of row r end
CellBottom(b, r, c, rowHeights, colWidth, y, ctx) ==
    LET cell == b.rows[r].cells[c]
        rowTop == y + Sum(SubSeq(rowHeights, 1, r - 1))
        lastRow == IF r + cell.rowspan - 1 <= Len(rowHeights) THEN r + cell.rowspan - 1
                   ELSE Len(rowHeights)
        cellHeight == Sum(SubSeq(rowHeights, r, lastRow))
        textHeight ==
            Sum([p \in 1..Len(cell.content) |->
                    Quarters(Len(LinesDrawn(cell.content[p], colWidth * cell.colspan - 12, ctx))
                             * lineHeight(cell.content[p], ctx))])
    IN  MathMax(rowTop + cellHeight, rowTop + Quarters(6) + textHeight)

\* lines 758-825
drawTableBlock(b, y, ctx) ==
    LET colWidth == columnWidth(b, ctx)
        rowHeights == computeRowHeights(b, ctx, colWidth)
        bottoms == { CellBottom(b, rc[1], rc[2], rowHeights, colWidth, y, ctx) :
                         rc \in CellsOf(b) } \cup {y}
    IN  [top |-> y, bottom |-> CHOOSE m \in bottoms : \A n \in bottoms : m >= n,
         cursorY |-> y + Sum(rowHeights) + 2 * ctx.bodyLineHeight]

\* lines 501-507
drawBlock(b, y, ctx) ==
    IF b.type = "paragraph" THEN drawParagraphBlock(b, y, ctx)
    ELSE IF b.type = "image" THEN drawImageBlock(b, y, ctx)
    ELSE drawTableBlock(b, y, ctx)

\* no tiptapToOpenXmlBlocks that meets a list is under way
ListUnused == [orderedCounter |-> 0, inOrderedList |-> FALSE]

\* the state of specifications in which TextEditor is not mounted
PreviewUnused ==
    [inputs |-> [text |-> <<>>, layout |-> 0], mounted |-> FALSE, effects |-> <<>>,
     previewUrl |-> [effect |-> 0, inputs |-> [text |-> <<>>, layout |-> 0]], liveUrls |-> {}]

\* no block has been measured ahead of the loop
MeasureUnused == [measured |-> <<>>]

\* computeRowHeights is not being called
TableUnused == [table |-> [type |-> "table", rows |-> <<>>], returnedHeights |-> <<>>]

\* the state of specifications in which exportToWord is not called
WordUnused ==
    [entry |-> "none", docx |-> [ok |-> FALSE], docTitle |-> <<>>, docSubtitle |-> <<>>,
     updatedXml |-> <<>>, richCtx |-> [nextRelId |-> 0], headingNumbers |-> <<>>,
     wordBlocks |-> <<>>, nodeIndex |-> 0, wordPc |-> "unused", saved |-> [by |-> "nothing", xml |-> <<>>],
     error |-> "none"]

\* the state of specifications in which no two renders run side by side
RendersUnused == <<>>

\* the state of specifications in which heading-classify is not called
ClassifyUnused ==
    [request |-> [lines |-> <<>>], reply |-> [status |-> 0, labels |-> <<>>],
     labels |-> [handed |-> "nothing", labels |-> <<>>]]

\* no PDF is being built
PdfUnused ==
    [template |-> [ok |-> FALSE, pageCount |-> 0],
     layout |-> [body |-> [x |-> 0, y |-> 0, width |-> 0, height |-> 0, lineHeight |-> 0,
                           fontSize |-> 0],
                 headingFontSize |-> 0, bodyAlign |-> "left"],
     doc |-> <<>>, blocks |-> <<>>, outPages |-> <<>>, cursorY |-> 0, placed |-> <<>>,
     pc |-> "unused"]

(***************************************************************************)
(* Specification of drawParagraphBlock (pdf-export.ts:711-739).            *)
(***************************************************************************)
ParaInit ==
    /\ block \in BodyParagraphs \cup HeadingParagraphs
    /\ box \in Boxes
    /\ lines = <<>>
    /\ drawnLines = <<>>
    /\ paraPc = "wrap"
    /\ currentNumbers = NumUnused.currentNumbers
    /\ emitted = NumUnused.emitted
    /\ last = NumUnused.last
    /\ numPc = NumUnused.numPc
    /\ template = PdfUnused.template
    /\ layout = PdfUnused.layout
    /\ doc = PdfUnused.doc
    /\ blocks = PdfUnused.blocks
    /\ outPages = PdfUnused.outPages
    /\ cursorY = PdfUnused.cursorY
    /\ placed = PdfUnused.placed
    /\ pc = PdfUnused.pc
    /\ table = TableUnused.table
    /\ returnedHeights = TableUnused.returnedHeights
    /\ entry = WordUnused.entry
    /\ docx = WordUnused.docx
    /\ docTitle = WordUnused.docTitle
    /\ docSubtitle = WordUnused.docSubtitle
    /\ updatedXml = WordUnused.updatedXml
    /\ richCtx = WordUnused.richCtx
    /\ headingNumbers = WordUnused.headingNumbers
    /\ wordBlocks = WordUnused.wordBlocks
    /\ nodeIndex = WordUnused.nodeIndex
    /\ wordPc = WordUnused.wordPc
    /\ saved = WordUnused.saved
    /\ error = WordUnused.error
    /\ renders = RendersUnused
    /\ request = ClassifyUnused.request
    /\ reply = ClassifyUnused.reply
    /\ labels = ClassifyUnused.labels
    /\ orderedCounter = ListUnused.orderedCounter
    /\ inOrderedList = ListUnused.inOrderedList
    /\ inputs = PreviewUnused.inputs
    /\ mounted = PreviewUnused.mounted
    /\ effects = PreviewUnused.effects
    /\ previewUrl = PreviewUnused.previewUrl
    /\ liveUrls = PreviewUnused.liveUrls
    /\ measured = MeasureUnused.measured

\* lines 712-721
WrapParagraph ==
    /\ paraPc = "wrap"
    /\ lines' = wrapRuns(block.runs, box.width, FontSizeOf(block), block.isHeading)
    /\ paraPc' = "draw"
    /\ UNCHANGED <<block, box, drawnLines>>
    /\ UNCHANGED <<numVars, pdfVars, tableVars, wordVars, renders, classifyVars, listVars, previewVars, measureVars>>

\* lines 722-737: one iteration of the loop
DrawLine ==
    /\ paraPc = "draw"
    /\ LET i == Len(drawnLines) + 1
           isLastLine == i = Len(lines)
       IN  /\ drawnLines' = Append(drawnLines,
                                   drawLineSegments(lines[i], box, block.align,
                                                    FontSizeOf(block), block.isHeading,
                                                    isLastLine))
           /\ paraPc' = IF isLastLine THEN "done" ELSE "draw"
    /\ UNCHANGED <<block, box, lines>>
    /\ UNCHANGED <<numVars, pdfVars, tableVars, wordVars, renders, classifyVars, listVars, previewVars, measureVars>>

ParaNext == WrapParagraph \/ DrawLine

SpecParagraph == ParaInit /\ [][ParaNext]_vars

\* no paragraph is being drawn
ParaUnused ==
    [block |-> [type |-> "paragraph", runs |-> <<>>, align |-> "left", isHeading |-> FALSE],
     box |-> [x |-> 0, width |-> 0], lines |-> <<>>, drawnLines |-> <<>>, paraPc |-> "unused"]

\* createNumberingNormalizer(): let currentNumbers = []
NumInit ==
    /\ currentNumbers = <<>>
    /\ emitted = <<>>
    /\ last = NoCall
    /\ numPc = "ready"
    /\ block = ParaUnused.block
    /\ box = ParaUnused.box
    /\ lines = ParaUnused.lines
    /\ drawnLines = ParaUnused.drawnLines
    /\ paraPc = ParaUnused.paraPc
    /\ template = PdfUnused.template
    /\ layout = PdfUnused.layout
    /\ doc = PdfUnused.doc
    /\ blocks = PdfUnused.blocks
    /\ outPages = PdfUnused.outPages
    /\ cursorY = PdfUnused.cursorY
    /\ placed = PdfUnused.placed
    /\ pc = PdfUnused.pc
    /\ table = TableUnused.table
    /\ returnedHeights = TableUnused.returnedHeights
    /\ entry = WordUnused.entry
    /\ docx = WordUnused.docx
    /\ docTitle = WordUnused.docTitle
    /\ docSubtitle = WordUnused.docSubtitle
    /\ updatedXml = WordUnused.updatedXml
    /\ richCtx = WordUnused.richCtx
    /\ headingNumbers = WordUnused.headingNumbers
    /\ wordBlocks = WordUnused.wordBlocks
    /\ nodeIndex = WordUnused.nodeIndex
    /\ wordPc = WordUnused.wordPc
    /\ saved = WordUnused.saved
    /\ error = WordUnused.error
    /\ renders = RendersUnused
    /\ request = ClassifyUnused.request
    /\ reply = ClassifyUnused.reply
    /\ labels = ClassifyUnused.labels
    /\ orderedCounter = ListUnused.orderedCounter
    /\ inOrderedList = ListUnused.inOrderedList
    /\ inputs = PreviewUnused.inputs
    /\ mounted = PreviewUnused.mounted
    /\ effects = PreviewUnused.effects
    /\ previewUrl = PreviewUnused.previewUrl
    /\ liveUrls = PreviewUnused.liveUrls
    /\ measured = MeasureUnused.measured

SpecNumbering == NumInit /\ [][NumNext]_vars

(***************************************************************************)
(* Specification of buildPdfBytes (pdf-export.ts:108-283).                 *)
(***************************************************************************)
Init ==
    /\ template \in Templates
    /\ layout \in Layouts
    /\ doc \in Docs
    /\ blocks = <<>>
    /\ outPages = <<>>
    /\ cursorY = 0
    /\ placed = <<>>
    /\ pc = "fetch"
    /\ currentNumbers = NumUnused.currentNumbers
    /\ emitted = NumUnused.emitted
    /\ last = NumUnused.last
    /\ numPc = NumUnused.numPc
    /\ block = ParaUnused.block
    /\ box = ParaUnused.box
    /\ lines = ParaUnused.lines
    /\ drawnLines = ParaUnused.drawnLines
    /\ paraPc = ParaUnused.paraPc
    /\ table = TableUnused.table
    /\ returnedHeights = TableUnused.returnedHeights
    /\ entry = WordUnused.entry
    /\ docx = WordUnused.docx
    /\ docTitle = WordUnused.docTitle
    /\ docSubtitle = WordUnused.docSubtitle
    /\ updatedXml = WordUnused.updatedXml
    /\ richCtx = WordUnused.richCtx
    /\ headingNumbers = WordUnused.headingNumbers
    /\ wordBlocks = WordUnused.wordBlocks
    /\ nodeIndex = WordUnused.nodeIndex
    /\ wordPc = WordUnused.wordPc
    /\ saved = WordUnused.saved
    /\ error = WordUnused.error
    /\ renders = RendersUnused
    /\ request = ClassifyUnused.request
    /\ reply = ClassifyUnused.reply
    /\ labels = ClassifyUnused.labels
    /\ orderedCounter = ListUnused.orderedCounter
    /\ inOrderedList = ListUnused.inOrderedList
    /\ inputs = PreviewUnused.inputs
    /\ mounted = PreviewUnused.mounted
    /\ effects = PreviewUnused.effects
    /\ previewUrl = PreviewUnused.previewUrl
    /\ liveUrls = PreviewUnused.liveUrls
    /\ measured = MeasureUnused.measured

NoLabel == <<>>

\* a page added to outputDoc: the template page copied as its background,
\* whether it was pushed to contentPages, and the page-number label drawn
Page(background, content) == [background |-> background, content |-> content, label |-> NoLabel]

\* the positions in outputDoc of the pages of contentPages, in push order
RECURSIVE contentPages(_, _)
contentPages(pages, from) ==
    IF from > Len(pages) THEN <<>>
    ELSE (IF pages[from].content THEN <<from>> ELSE <<>>) \o contentPages(pages, from + 1)

\* a createContentPage that adds a second page after the one it returns
createTwoContentPages(pages, tpl) ==
    pages \o << Page(IF tpl.pageCount > 1 THEN 1 ELSE 0, TRUE),
                Page(IF tpl.pageCount > 1 THEN 1 ELSE 0, TRUE) >>

\* lines 653-657 with overflowPageIndex of line 222
createContentPage(pages, tpl) == Append(pages, Page(IF tpl.pageCount > 1 THEN 1 ELSE 0, TRUE))

\* line 496, with cursorY and blockHeight in quarter points
BreaksOnCursorAlone(y, blockHeight, L) == y > Quarters(L.body.y + L.body.height)

BreaksOnBodyHeight(y, blockHeight, L) == y + blockHeight > Quarters(L.body.height)

NeedsNewPage(y, blockHeight, L) == y + blockHeight > Quarters(L.body.y + L.body.height)

\* line 261: `Page ${i + 2} of ${totalPages}`, i counting from 0
LabelCountsFromOne(i, totalPages) ==
    <<"P", "a", "g", "e", " ">> \o ToDigits(i + 1) \o <<" ", "o", "f", " ">> \o ToDigits(totalPages)

PageLabel(i, totalPages) ==
    <<"P", "a", "g", "e", " ">> \o ToDigits(i + 2) \o <<" ", "o", "f", " ">> \o ToDigits(totalPages)

\* lines 116-119: the template download, which throws unless response.ok
FetchTemplate ==
    /\ pc = "fetch"
    /\ pc' = IF template.ok THEN "firstPage" ELSE "failed"
    /\ UNCHANGED <<template, layout, doc, blocks, outPages, cursorY, placed>>
    /\ UNCHANGED <<numVars, paraVars, tableVars, wordVars, renders, classifyVars, listVars, previewVars, measureVars>>

\* lines 121-219: page 1 is the template's first page, with title and subtitle
DrawFirstPage ==
    /\ pc = "firstPage"
    /\ outPages' = Append(outPages, Page(0, FALSE))
    /\ pc' = "render"
    /\ UNCHANGED <<template, layout, doc, blocks, cursorY, placed>>
    /\ UNCHANGED <<numVars, paraVars, tableVars, wordVars, renders, classifyVars, listVars, previewVars, measureVars>>

\* lines 221-256 and 489-492: a fresh normalizer, the flattened blocks, the
\* first content page and the cursor at the top of the body
StartContent ==
    /\ pc = "render"
    /\ blocks' = tiptapToPdfBlocks(doc, <<>>, layout.bodyAlign)
    /\ outPages' = createContentPage(outPages, template)
    /\ cursorY' = Quarters(layout.body.y)
    /\ pc' = IF blocks' = <<>> THEN "labels" ELSE "blocks"
    /\ UNCHANGED <<template, layout, doc, placed>>
    /\ UNCHANGED <<numVars, paraVars, tableVars, wordVars, renders, classifyVars, listVars, previewVars, measureVars>>

\* lines 496-499: the pages and the cursor the block is drawn with
PageFor(pages, tpl, L, y, blockHeight) ==
    IF NeedsNewPage(y, blockHeight, L)
    THEN [pages |-> createContentPage(pages, tpl), y |-> Quarters(L.body.y)]
    ELSE [pages |-> pages, y |-> y]

\* lines 494-508: one iteration of the loop over the blocks
RenderBlock ==
    /\ pc = "blocks"
    /\ \E blockHeight \in { measureBlockHeight(blocks[Len(placed) + 1], renderContext(layout)) } :
       \E at \in { PageFor(outPages, template, layout, cursorY, blockHeight) } :
       \E drawn \in { drawBlock(blocks[Len(placed) + 1], at.y, renderContext(layout)) } :
           /\ outPages' = at.pages
           /\ cursorY' = drawn.cursorY
           /\ placed' = Append(placed,
                               [page |-> Len(at.pages), cursorBefore |-> cursorY,
                                height |-> blockHeight, pagesBefore |-> Len(outPages),
                                top |-> drawn.top, bottom |-> drawn.bottom])
           /\ pc' = IF Len(placed') = Len(blocks) THEN "labels" ELSE "blocks"
    /\ UNCHANGED <<template, layout, doc, blocks>>
    /\ UNCHANGED <<numVars, paraVars, tableVars, wordVars, renders, classifyVars, listVars, previewVars, measureVars>>

\* lines 258-280: one iteration of the loop over contentPages
LabelPage ==
    /\ pc = "labels"
    /\ \E content \in { contentPages(outPages, 1) } :
       \E i \in 0..(Len(content) - 1) :
           /\ i = Cardinality({ k \in 1..Len(content) : outPages[content[k]].label # NoLabel })
           /\ outPages' = [outPages EXCEPT
                              ![content[i + 1]].label = PageLabel(i, Len(content) + 1)]
    /\ UNCHANGED <<template, layout, doc, blocks, cursorY, placed, pc>>
    /\ UNCHANGED <<numVars, paraVars, tableVars, wordVars, renders, classifyVars, listVars, previewVars, measureVars>>

\* line 282: outputDoc.save()
Save ==
    /\ pc = "labels"
    /\ \A k \in 1..Len(outPages) : outPages[k].content => outPages[k].label # NoLabel
    /\ pc' = "done"
    /\ UNCHANGED <<template, layout, doc, blocks, outPages, cursorY, placed>>
    /\ UNCHANGED <<numVars, paraVars, tableVars, wordVars, renders, classifyVars, listVars, previewVars, measureVars>>

Next == FetchTemplate \/ DrawFirstPage \/ StartContent \/ RenderBlock \/ LabelPage \/ Save

Spec == Init /\ [][Next]_vars

(***************************************************************************)
(* Specification of buildPdfBytes with the blocks flattened and measured   *)
(* ahead of renderRichContent: tiptapToPdfBlocks, measureBlockHeight and   *)
(* drawBlock are functions of the document, the block and the layout,      *)
(* drawBlock moving what it draws down by cursorY.                         *)
(***************************************************************************)
\* lines 489, 495 and 501-507: every block of the document, its measured
\* height and what is drawn for it at cursorY 0
Measured(blockList, ctx) ==
    [i \in 1..Len(blockList) |->
        [block |-> blockList[i],
         height |-> measureBlockHeight(blockList[i], ctx),
         drawn |-> drawBlock(blockList[i], 0, ctx)]]

PaginateInit ==
    /\ template \in Templates
    /\ layout \in Layouts
    /\ doc \in Docs
    /\ measured = Measured(tiptapToPdfBlocks(doc, <<>>, layout.bodyAlign), renderContext(layout))
    /\ blocks = <<>>
    /\ outPages = <<>>
    /\ cursorY = 0
    /\ placed = <<>>
    /\ pc = "fetch"
    /\ currentNumbers = NumUnused.currentNumbers
    /\ emitted = NumUnused.emitted
    /\ last = NumUnused.last
    /\ numPc = NumUnused.numPc
    /\ block = ParaUnused.block
    /\ box = ParaUnused.box
    /\ lines = ParaUnused.lines
    /\ drawnLines = ParaUnused.drawnLines
    /\ paraPc = ParaUnused.paraPc
    /\ table = TableUnused.table
    /\ returnedHeights = TableUnused.returnedHeights
    /\ entry = WordUnused.entry
    /\ docx = WordUnused.docx
    /\ docTitle = WordUnused.docTitle
    /\ docSubtitle = WordUnused.docSubtitle
    /\ updatedXml = WordUnused.updatedXml
    /\ richCtx = WordUnused.richCtx
    /\ headingNumbers = WordUnused.headingNumbers
    /\ wordBlocks = WordUnused.wordBlocks
    /\ nodeIndex = WordUnused.nodeIndex
    /\ wordPc = WordUnused.wordPc
    /\ saved = WordUnused.saved
    /\ error = WordUnused.error
    /\ renders = RendersUnused
    /\ request = ClassifyUnused.request
    /\ reply = ClassifyUnused.reply
    /\ labels = ClassifyUnused.labels
    /\ orderedCounter = ListUnused.orderedCounter
    /\ inOrderedList = ListUnused.inOrderedList
    /\ inputs = PreviewUnused.inputs
    /\ mounted = PreviewUnused.mounted
    /\ effects = PreviewUnused.effects
    /\ previewUrl = PreviewUnused.previewUrl
    /\ liveUrls = PreviewUnused.liveUrls

\* lines 221-256 and 489-492: the flattened blocks, the first content page
\* and the cursor at the top of the body
StartMeasured ==
    /\ pc = "render"
    /\ blocks' = [i \in 1..Len(measured) |-> measured[i].block]
    /\ outPages' = createContentPage(outPages, template)
    /\ cursorY' = Quarters(layout.body.y)
    /\ pc' = IF measured = <<>> THEN "labels" ELSE "blocks"
    /\ UNCHANGED <<template, layout, doc, placed>>
    /\ UNCHANGED <<numVars, paraVars, tableVars, wordVars, renders, classifyVars, listVars, previewVars, measureVars>>

\* lines 494-508: one iteration of the loop over the blocks
PlaceBlock ==
    /\ pc = "blocks"
    /\ \E size \in { measured[Len(placed) + 1] } :
       \E at \in { PageFor(outPages, template, layout, cursorY, size.height) } :
           /\ outPages' = at.pages
           /\ cursorY' = at.y + size.drawn.cursorY
           /\ placed' = Append(placed,
                               [page |-> Len(at.pages), cursorBefore |-> cursorY,
                                height |-> size.height, pagesBefore |-> Len(outPages),
                                top |-> at.y + size.drawn.top,
                                bottom |-> at.y + size.drawn.bottom])
           /\ pc' = IF Len(placed') = Len(blocks) THEN "labels" ELSE "blocks"
    /\ UNCHANGED <<template, layout, doc, blocks>>
    /\ UNCHANGED <<numVars, paraVars, tableVars, wordVars, renders, classifyVars, listVars, previewVars, measureVars>>

PaginateNext ==
    FetchTemplate \/ DrawFirstPage \/ StartMeasured \/ PlaceBlock \/ LabelPage \/ Save

\* buildPdfBytes is an async function whose awaits (the fetch, the embedding
\* of fonts and images, createContentPage, save) all settle: whenever it has
\* a next step, the step is taken
SpecPaginate == PaginateInit /\ [][PaginateNext]_vars /\ WF_vars(PaginateNext)

(***************************************************************************)
(* Specification of computeRowHeights (pdf-export.ts:840-859), applied to  *)
(* the tables of at most MaxRows rows.                                     *)
(***************************************************************************)
\* cells of one paragraph: one character, or twelve, which wrap into several
\* lines
TableCells == { [content |-> <<tiptapParagraphToPdf(TextNode(t), "left")>>,
                 colspan |-> 1, rowspan |-> rs] :
                    t \in { <<"b">>, Repeat(<<"b">>, 12) }, rs \in {1, 2} }

TableRows == { [cells |-> cs] : cs \in UNION { [1..n -> TableCells] : n \in 1..2 } }

Tables == { [type |-> "table", rows |-> rows] :
                rows \in UNION { [1..n -> TableRows] : n \in 1..MaxRows } }

TableInit ==
    /\ table \in Tables
    /\ layout \in Layouts
    /\ returnedHeights = <<>>
    /\ template = PdfUnused.template
    /\ doc = PdfUnused.doc
    /\ blocks = PdfUnused.blocks
    /\ outPages = PdfUnused.outPages
    /\ cursorY = PdfUnused.cursorY
    /\ placed = PdfUnused.placed
    /\ pc = PdfUnused.pc
    /\ currentNumbers = NumUnused.currentNumbers
    /\ emitted = NumUnused.emitted
    /\ last = NumUnused.last
    /\ numPc = NumUnused.numPc
    /\ block = ParaUnused.block
    /\ box = ParaUnused.box
    /\ lines = ParaUnused.lines
    /\ drawnLines = ParaUnused.drawnLines
    /\ paraPc = ParaUnused.paraPc
    /\ entry = WordUnused.entry
    /\ docx = WordUnused.docx
    /\ docTitle = WordUnused.docTitle
    /\ docSubtitle = WordUnused.docSubtitle
    /\ updatedXml = WordUnused.updatedXml
    /\ richCtx = WordUnused.richCtx
    /\ headingNumbers = WordUnused.headingNumbers
    /\ wordBlocks = WordUnused.wordBlocks
    /\ nodeIndex = WordUnused.nodeIndex
    /\ wordPc = WordUnused.wordPc
    /\ saved = WordUnused.saved
    /\ error = WordUnused.error
    /\ renders = RendersUnused
    /\ request = ClassifyUnused.request
    /\ reply = ClassifyUnused.reply
    /\ labels = ClassifyUnused.labels
    /\ orderedCounter = ListUnused.orderedCounter
    /\ inOrderedList = ListUnused.inOrderedList
    /\ inputs = PreviewUnused.inputs
    /\ mounted = PreviewUnused.mounted
    /\ effects = PreviewUnused.effects
    /\ previewUrl = PreviewUnused.previewUrl
    /\ liveUrls = PreviewUnused.liveUrls
    /\ measured = MeasureUnused.measured

\* one call, with the column width measureTableHeight and drawTableBlock pass
ComputeRowHeights ==
    /\ returnedHeights = <<>>
    /\ returnedHeights' = computeRowHeights(table, renderContext(layout),
                                       columnWidth(table, renderContext(layout)))
    /\ UNCHANGED table
    /\ UNCHANGED <<numVars, paraVars, pdfVars, wordVars, renders, classifyVars, listVars, previewVars, measureVars>>

SpecTable == TableInit /\ [][ComputeRowHeights]_vars

(***************************************************************************)
(* The Word engine: text helpers of buildDocxBlobFromTemplateRich          *)
(* (pdf-export.ts:1704-1916, 2501-2509).  XML is a sequence of one-character *)
(* strings, like every other text of the model.                            *)
(***************************************************************************)
\* s.startsWith(pattern, i), counting from 1
At(s, i, pattern) ==
    /\ i >= 1
    /\ i + Len(pattern) - 1 <= Len(s)
    /\ SubSeq(s, i, i + Len(pattern) - 1) = pattern

\* String.prototype.indexOf(needle, from), counting from 1, and 0 for -1
indexOf(s, needle, from) ==
    LET hits == { i \in from..Len(s) : At(s, i, needle) }
    IN  IF hits = {} THEN 0 ELSE CHOOSE i \in hits : \A j \in hits : i <= j

\* lines 1883-1885: source.split(needle).join(replacement)
RECURSIVE replaceAll(_, _, _)
replaceAll(source, needle, replacement) ==
    LET i == indexOf(source, needle, 1)
    IN  IF i = 0 THEN source
        ELSE SubSeq(source, 1, i - 1) \o replacement
                \o replaceAll(Drop(source, i + Len(needle) - 1), needle, replacement)

\* an escaping that replaces the ampersand last, after the other four
xmlEscapeAmpersandLast(value) ==
    replaceAll(replaceAll(replaceAll(replaceAll(replaceAll(
        SelectSeq(value, LAMBDA c : c # "\f"),
        <<"<">>, <<"&", "l", "t", ";">>), <<">">>, <<"&", "g", "t", ";">>), <<"\"">>, <<"&", "q", "u", "o", "t", ";">>), <<"'">>, <<"&", "a", "p", "o", "s", ";">>), <<"&">>, <<"&", "a", "m", "p", ";">>)

\* lines 2501-2509: strip the control characters (of those in
\* [\u0000-\u0008\u000B\u000C\u000E-\u001F] a text of the model can hold the
\* form feed, \u000C), then replace & < > " ' in that order
xmlEscape(value) ==
    replaceAll(replaceAll(replaceAll(replaceAll(replaceAll(
        SelectSeq(value, LAMBDA c : c # "\f"),
        <<"&">>, <<"&", "a", "m", "p", ";">>), <<"<">>, <<"&", "l", "t", ";">>), <<">">>, <<"&", "g", "t", ";">>), <<"\"">>, <<"&", "q", "u", "o", "t", ";">>), <<"'">>, <<"&", "a", "p", "o", "s", ";">>)

\* line 1820: where the pattern
\*   (<w:t[^>]*>)\{\{<\/w:t>([\s\S]{0,1000}?)(<w:t[^>]*>)key\}\}<\/w:t>
\* matches s from position i on: the ends of its three groups and of the
\* match, the lazy middle group taking the nearest second tag
SplitMatchAt(s, i, key) ==
    LET e1 == IF At(s, i, <<"<", "w", ":", "t">>) THEN indexOf(s, <<">">>, i + 4) ELSE 0
        ok1 == e1 # 0 /\ At(s, e1 + 1, <<"{", "{", "<", "/", "w", ":", "t", ">">>)
        m == e1 + 9
        seconds == { j \in m..Len(s) :
                        /\ ok1
                        /\ j - m <= 1000
                        /\ At(s, j, <<"<", "w", ":", "t">>)
                        /\ indexOf(s, <<">">>, j + 4) # 0
                        /\ At(s, indexOf(s, <<">">>, j + 4) + 1, key \o <<"}", "}", "<", "/", "w", ":", "t", ">">>) }
    IN  IF seconds = {} THEN [ok |-> FALSE]
        ELSE LET j == CHOOSE j \in seconds : \A k \in seconds : j <= k
                 e3 == indexOf(s, <<">">>, j + 4)
             IN  [ok |-> TRUE, start |-> i,
                  groups |-> <<SubSeq(s, i, e1), SubSeq(s, m, j - 1), SubSeq(s, j, e3)>>,
                  end |-> e3 + Len(key) + 8]

\* String.prototype.replace with a replacement string: $$ is a dollar sign,
\* $& the whole match and $1..$3 the groups; any other character stands for
\* itself
RECURSIVE ExpandReplacement(_, _, _)
ExpandReplacement(pattern, groups, whole) ==
    IF pattern = <<>> THEN <<>>
    ELSE IF Head(pattern) = "$" /\ Len(pattern) >= 2 /\ pattern[2] \in {"$", "&", "1", "2", "3"}
         THEN (CASE pattern[2] = "$" -> <<"$">>
                 [] pattern[2] = "&" -> whole
                 [] pattern[2] = "1" -> groups[1]
                 [] pattern[2] = "2" -> groups[2]
                 [] pattern[2] = "3" -> groups[3])
                  \o ExpandReplacement(Drop(pattern, 2), groups, whole)
         ELSE <<Head(pattern)>> \o ExpandReplacement(Tail(pattern), groups, whole)

\* lines 1816-1824, the pattern being global and the replacement string
\* being `$1${escaped}</w:t>$2$3</w:t>`
RECURSIVE ReplaceSplitFrom(_, _, _)
ReplaceSplitFrom(xml, key, escaped) ==
    LET starts == { i \in 1..Len(xml) : SplitMatchAt(xml, i, key).ok }
    IN  IF starts = {} THEN xml
        ELSE LET match == SplitMatchAt(xml, CHOOSE i \in starts : \A k \in starts : i <= k, key)
             IN  SubSeq(xml, 1, match.start - 1)
                    \o ExpandReplacement(<<"$", "1">> \o escaped \o <<"<", "/", "w", ":", "t", ">", "$", "2", "$", "3", "<", "/", "w", ":", "t", ">">>,
                                         match.groups,
                                         SubSeq(xml, match.start, match.end))
                    \o ReplaceSplitFrom(Drop(xml, match.end), key, escaped)

\* lines 1816-1824: if (!value) return xml
replaceSplitPlaceholder(xml, key, value) ==
    IF value = <<>> THEN xml ELSE ReplaceSplitFrom(xml, key, xmlEscape(value))

\* lines 1808-1814
applyTemplatePlaceholders(xml, t, st) ==
    replaceSplitPlaceholder(
        replaceSplitPlaceholder(
            replaceAll(replaceAll(xml, <<"{", "{", "t", "i", "t", "l", "e", "}", "}">>, xmlEscape(t)),
                       <<"{", "{", "s", "u", "b", "t", "i", "t", "l", "e", "}", "}">>, xmlEscape(st)),
            <<"t", "i", "t", "l", "e">>, t),
        <<"s", "u", "b", "t", "i", "t", "l", "e">>, st)

\* lines 1828 and 1830-1833: a match of the pattern for the run that holds
\* the whole marker, or of the pattern for the marker split over two runs
PlaceholderRunAt(s, i, key, split) ==
    IF split THEN SplitMatchAt(s, i, key)
    ELSE LET e1 == IF At(s, i, <<"<", "w", ":", "t">>) THEN indexOf(s, <<">">>, i + 4) ELSE 0
         IN  IF e1 # 0 /\ At(s, e1 + 1, <<"{", "{">> \o key \o <<"}", "}", "<", "/", "w", ":", "t", ">">>)
             THEN [ok |-> TRUE, start |-> i, end |-> e1 + Len(key) + 10]
             ELSE [ok |-> FALSE]

\* xml.replace(pattern, replacementRuns) for a global pattern without groups,
\* in which $1, $2 and $3 of the replacement stand for themselves
RECURSIVE ReplaceRunsFrom(_, _, _, _)
ReplaceRunsFrom(xml, key, split, runs) ==
    LET starts == { i \in 1..Len(xml) : PlaceholderRunAt(xml, i, key, split).ok }
    IN  IF starts = {} THEN xml
        ELSE LET match == PlaceholderRunAt(xml, CHOOSE i \in starts : \A k \in starts : i <= k,
                                           key, split)
             IN  SubSeq(xml, 1, match.start - 1)
                    \o ExpandReplacement(runs, <<<<"$", "1">>, <<"$", "2">>, <<"$", "3">>>>,
                                         SubSeq(xml, match.start, match.end))
                    \o ReplaceRunsFrom(Drop(xml, match.end), key, split, runs)

\* lines 1826-1836
replacePlaceholderRuns(xml, key, replacementRuns) ==
    IF replacementRuns = <<>> THEN xml
    ELSE ReplaceRunsFrom(ReplaceRunsFrom(xml, key, FALSE, replacementRuns),
                         key, TRUE, replacementRuns)

\* lines 1855-1866: the loop over the words, current being the line begun
RECURSIVE WrapWords(_, _, _)
WrapWords(words, current, maxChars) ==
    IF words = <<>> THEN (IF current # <<>> THEN <<current>> ELSE <<>>)
    ELSE LET next == IF current # <<>> THEN current \o <<" ">> \o Head(words) ELSE Head(words)
         IN  IF Len(next) > maxChars /\ current # <<>>
             THEN <<current>> \o WrapWords(Tail(words), Head(words), maxChars)
             ELSE WrapWords(Tail(words), next, maxChars)

\* lines 1852-1867: text.split(/\s+/).filter(Boolean), then the loop
wrapByLength(text, maxChars) ==
    WrapWords(SelectSeq(SplitOnSpaces(text), LAMBDA tk : tk # <<>> /\ ~IsSpaceToken(tk)),
              <<>>, maxChars)

\* lines 1838-1850; a line of wrapByLength neither begins nor ends with
\* whitespace, so no run gets the xml:space attribute
buildRunsWithLineBreaks(text, color, maxChars) ==
    IF text = <<>> THEN <<>>
    ELSE LET wrapped == wrapByLength(text, maxChars)
         IN  Join([k \in 1..Len(wrapped) |->
                 (IF k = 1 THEN <<>> ELSE <<"<", "w", ":", "r", ">", "<", "w", ":", "b", "r", "/", ">", "<", "/", "w", ":", "r", ">">>)
                    \o <<"<", "w", ":", "r", ">", "<", "w", ":", "r", "P", "r", ">", "<", "w", ":", "c", "o", "l", "o", "r", " ", "w", ":", "v", "a", "l", "=", "\"">> \o color \o <<"\"", "/", ">", "<", "/", "w", ":", "r", "P", "r", ">", "<", "w", ":", "t", ">">>
                    \o xmlEscape(wrapped[k]) \o <<"<", "/", "w", ":", "t", ">", "<", "/", "w", ":", "r", ">">>])

\* lines 1774-1779: for the company IHNA the runs of the title and subtitle
\* markers are replaced, after applyTemplatePlaceholders has been applied
TitleRuns(applied, company, t, st) ==
    IF company # "IHNA" THEN applied
    ELSE replacePlaceholderRuns(
             replacePlaceholderRuns(applied, <<"t", "i", "t", "l", "e">>, buildRunsWithLineBreaks(t, <<"0", "0", "9", "6", "9", "0">>, 42)),
             <<"s", "u", "b", "t", "i", "t", "l", "e">>, buildRunsWithLineBreaks(st, <<"0", "0", "9", "6", "9", "0">>, 48))

\* line 1898: /<w:p(?:\\s|>)/g.  In the regular expression literal \\ is a
\* backslash, so the pattern matches <w:p> and <w:p followed by the two
\* characters \s
StartTag(s, i) == At(s, i, <<"<", "w", ":", "p", ">">>) \/ At(s, i, <<"<", "w", ":", "p", "\\", "s">>)

\* lines 1887-1916: the error thrown, or the document with the blocks in
\* the place of the text from start to the end of the next </w:p>
replaceParagraphContainingPlaceholder(documentXml, placeholder, blockList) ==
    LET placeholderIndex == indexOf(documentXml, placeholder, 1)
        starts == { i \in 1..(placeholderIndex - 1) : StartTag(documentXml, i) }
        end == IF placeholderIndex = 0 THEN 0
               ELSE indexOf(documentXml, <<"<", "/", "w", ":", "p", ">">>, placeholderIndex)
    IN  IF placeholderIndex = 0
        THEN [error |-> "Placeholder not found in template.", xml |-> <<>>]
        ELSE IF starts = {} \/ end = 0
        THEN [error |-> "Placeholder is not inside a paragraph.", xml |-> <<>>]
        ELSE [error |-> "none",
              xml |-> SubSeq(documentXml, 1,
                             (CHOOSE i \in starts : \A j \in starts : i >= j) - 1)
                        \o Join(blockList) \o Drop(documentXml, end + 5)]

(***************************************************************************)
(* tiptapToOpenXmlBlocks (pdf-export.ts:1918-2046).  Paragraph and run     *)
(* properties (pPr, rPr, xml:space), which carry styling only, are left    *)
(* out of the generated markup.  OpenXmlBlock is the turn of the loop for  *)
(* a paragraph or an image, OpenXmlNode the turn for a node of any type.   *)
(***************************************************************************)
\* lines 2228-2230: white space collapsed to one space, none at the end
RECURSIVE normalizeExportText(_)
normalizeExportText(value) ==
    IF AllSpace(value) THEN <<>>
    ELSE IF IsSpace(Head(value))
         THEN <<" ">> \o normalizeExportText(Drop(value, SpacesEnd(value, 1) - 1))
         ELSE <<Head(value)>> \o normalizeExportText(Tail(value))

\* lines 2210-2226
textRunXml(text) == <<"<", "w", ":", "r", ">", "<", "w", ":", "t", ">">> \o xmlEscape(text) \o <<"<", "/", "w", ":", "t", ">", "<", "/", "w", ":", "r", ">">>

\* lines 2160-2184, for a text that does not begin with "section": the
\* pattern /^(\d+(?:\.\d+)*)(?:\.)?\s+(.+)$/ and the tests on the title
detectNumberedHeading(text) ==
    LET match == numberedHeadingPattern(Trim(text))
        headingTitle == Trim(match.title)
    IN  IF /\ match.ok
           /\ headingTitle # <<>>
           /\ headingTitle[Len(headingTitle)] \notin {".", "!", "?"}
           /\ \A i \in 1..(Len(headingTitle) - 1) :
                  ~(headingTitle[i] \in {".", "!", "?"} /\ IsSpace(headingTitle[i + 1]))
        THEN [ok |-> TRUE, level |-> IF match.level > 6 THEN 6 ELSE match.level,
              title |-> headingTitle]
        ELSE [ok |-> FALSE, level |-> 0, title |-> <<>>]

\* lines 2191-2195: counters[levelIndex] += 1, the deeper counters are zeroed
IncrementCounter(counters, level) ==
    [i \in 1..Len(counters) |->
        IF i = level THEN counters[i] + 1 ELSE IF i > level THEN 0 ELSE counters[i]]

\* lines 2196-2197: `${counters.slice(0, match.level).join(".")} ${match.title}`
applyHeadingNumbering(match, counters) ==
    JoinDot(SubSeq(counters, 1, match.level)) \o <<" ">> \o match.title

\* lines 2076-2094 and 2122-2153
buildParagraphXml(node, headingText) ==
    <<"<", "w", ":", "p", ">">>
      \o (IF headingText # <<>> THEN textRunXml(headingText)
          ELSE IF node.runs = <<>> THEN textRunXml(<<>>)
          ELSE Join([r \in 1..Len(node.runs) |->
                        textRunXml(normalizeExportText(node.runs[r].text))]))
      \o <<"<", "/", "w", ":", "p", ">">>

\* lines 2399-2408: the sources of the model that are data URLs of a
\* supported image type
parseDataUrl(src) == src \in {"data:28x8", "data:56x16", "data:broken"}

\* Math.max(1, Math.round(px * scale)) with scale = Math.min(1, 520 / width)
\* for a positive width and 1 otherwise (lines 2347-2350)
ScaledPx(px, width) ==
    MathMax(1, IF width > 520 THEN (2 * px * 520 + width) \div (2 * width) ELSE px)

\* lines 2334-2364 and 2449-2458: the run with the drawing and the context
\* after the image part and its relationship were added
buildImageBlock(src, c) ==
    IF ~parseDataUrl(src) THEN [xml |-> <<>>, ctx |-> c]
    ELSE LET size == getImageSize(src)
         IN  [xml |-> <<"<", "w", ":", "r", ">", "<", "w", ":", "d", "r", "a", "w", "i", "n", "g", ">", "<", "w", "p", ":", "e", "x", "t", "e", "n", "t", " ", "c", "x", "=", "\"">>
                        \o ToDigits(9525 * ScaledPx(size.width, size.width))
                        \o <<"\"", " ", "c", "y", "=", "\"">>
                        \o ToDigits(9525 * ScaledPx(size.height, size.width))
                        \o <<"\"", "/", ">", "<", "w", "p", ":", "d", "o", "c", "P", "r", " ", "i", "d", "=", "\"">> \o ToDigits(c.nextDocPrId)
                        \o <<"\"", "/", ">", "<", "a", ":", "b", "l", "i", "p", " ", "r", ":", "e", "m", "b", "e", "d", "=", "\"", "r", "I", "d">> \o ToDigits(c.nextRelId)
                        \o <<"\"", "/", ">", "<", "/", "w", ":", "d", "r", "a", "w", "i", "n", "g", ">", "<", "/", "w", ":", "r", ">">>,
              ctx |-> [c EXCEPT !.media = @ \cup {c.nextImageId},
                                !.rels = Append(@, [id |-> c.nextRelId, target |-> c.nextImageId]),
                                !.nextImageId = @ + 1,
                                !.nextRelId = @ + 1,
                                !.nextDocPrId = @ + 1]]

\* line 2114
emptyParagraphXml == <<"<", "w", ":", "p", ">", "<", "w", ":", "p", "P", "r", "/", ">", "<", "/", "w", ":", "p", ">">>

\* lines 1923-2039: one turn of the loop over doc.content: the blocks it
\* pushes, the heading counters and the context after it
OpenXmlBlock(node, counters, c) ==
    IF node.type = "paragraph"
    THEN LET match == detectNumberedHeading(fullText(node.runs))
         IN  IF match.ok
             THEN [blocks |-> <<buildParagraphXml(node,
                                    applyHeadingNumbering(match,
                                        IncrementCounter(counters, match.level)))>>,
                   counters |-> IncrementCounter(counters, match.level), ctx |-> c]
             ELSE [blocks |-> IF Trim(fullText(node.runs)) = <<>> THEN <<>>
                              ELSE <<buildParagraphXml(node, <<>>)>>,
                   counters |-> counters, ctx |-> c]
    ELSE IF node.src = "" \/ ~parseDataUrl(node.src)
         THEN [blocks |-> <<>>, counters |-> counters, ctx |-> c]
         ELSE [blocks |-> <<<<"<", "w", ":", "p", ">">> \o buildImageBlock(node.src, c).xml \o <<"<", "/", "w", ":", "p", ">">>>>,
               counters |-> counters, ctx |-> buildImageBlock(node.src, c).ctx]

\* lines 2102-2112 and 2122-2153: the marker run, then the runs of the node
buildListParagraphXml(node, marker) ==
    <<"<", "w", ":", "p", ">">> \o textRunXml(marker)
      \o (IF node.runs = <<>> THEN textRunXml(<<>>)
          ELSE Join([r \in 1..Len(node.runs) |->
                        textRunXml(normalizeExportText(node.runs[r].text))]))
      \o <<"<", "/", "w", ":", "p", ">">>

\* lines 2312-2332
buildTableCellXml(cell) ==
    <<"<", "w", ":", "t", "c", ">", "<", "w", ":", "t", "c", "P", "r", ">">>
      \o (IF cell.colspan > 1
          THEN <<"<", "w", ":", "g", "r", "i", "d", "S", "p", "a", "n", " ", "w", ":", "v", "a", "l", "=", "\"">> \o ToDigits(cell.colspan) \o <<"\"", "/", ">">>
          ELSE <<>>)
      \o <<"<", "/", "w", ":", "t", "c", "P", "r", ">">>
      \o (IF cell.content = <<>> THEN emptyParagraphXml
          ELSE Join([i \in 1..Len(cell.content) |-> buildParagraphXml(cell.content[i], <<>>)]))
      \o <<"<", "/", "w", ":", "t", "c", ">">>

\* lines 2274-2310; the table properties, which are constant, are left out
buildTableXml(node) ==
    IF node.rows = <<>> THEN <<>>
    ELSE LET counts == { Len(node.rows[r]) : r \in 1..Len(node.rows) }
             maxCols == CHOOSE m \in counts : \A n \in counts : m >= n
         IN  <<"<", "w", ":", "t", "b", "l", ">">>
               \o (IF maxCols > 0
                   THEN <<"<", "w", ":", "t", "b", "l", "G", "r", "i", "d", ">">> \o Repeat(<<"<", "w", ":", "g", "r", "i", "d", "C", "o", "l", " ", "w", ":", "w", "=", "\"", "1", "\"", "/", ">">>, maxCols) \o <<"<", "/", "w", ":", "t", "b", "l", "G", "r", "i", "d", ">">>
                   ELSE <<>>)
               \o Join([r \in 1..Len(node.rows) |->
                           <<"<", "w", ":", "t", "r", ">">>
                             \o Join([c \in 1..Len(node.rows[r]) |->
                                         buildTableCellXml(node.rows[r][c])])
                             \o <<"<", "/", "w", ":", "t", "r", ">">>])
               \o <<"<", "/", "w", ":", "t", "b", "l", ">">>

\* lines 1921-1922 and what lines 1931-1932, 1950-1951, 2016-2017 and
\* 2030-2031 set the two variables to
NoOrderedList == [orderedCounter |-> 1, inOrderedList |-> FALSE]

\* the blocks of a list: the paragraphs with text, each after its marker
\* (lines 1964-2013)
OpenXmlListBlocks(node, first) ==
    LET paragraphs == SelectSeq(OpenXmlListParagraphs(node),
                                LAMBDA p : Trim(fullText(p.runs)) # <<>>)
    IN  [k \in 1..Len(paragraphs) |->
            buildListParagraphXml(paragraphs[k],
                IF node.type = "orderedList" THEN ToDigits(first + k - 1) \o <<".", " ">>
                ELSE <<"*", " ">>)]

\* lines 1923-2039: one turn of the loop over doc.content, for a node of any
\* type: what it pushes and leaves in the counters and the context (step),
\* and orderedCounter and inOrderedList after it
OpenXmlNode(node, counters, c, ordered) ==
    IF node.type \in {"paragraph", "image"}
    THEN [step |-> OpenXmlBlock(node, counters, c),
          ordered |-> IF node.type = "paragraph" /\ Trim(fullText(node.runs)) = <<>>
                      THEN ordered ELSE NoOrderedList]
    ELSE IF node.type = "heading"
    THEN [step |-> [blocks |-> <<buildParagraphXml(node, <<>>)>>,
                    counters |-> counters, ctx |-> c],
          ordered |-> NoOrderedList]
    ELSE IF node.type = "bulletList"
    THEN [step |-> [blocks |-> OpenXmlListBlocks(node, 1), counters |-> counters, ctx |-> c],
          ordered |-> ordered]
    ELSE IF node.type = "orderedList"
    THEN LET first == IF ordered.inOrderedList THEN ordered.orderedCounter ELSE 1
         IN  [step |-> [blocks |-> OpenXmlListBlocks(node, first),
                        counters |-> counters, ctx |-> c],
              ordered |-> [orderedCounter |-> first + Len(OpenXmlListBlocks(node, first)),
                           inOrderedList |-> TRUE]]
    ELSE [step |-> [blocks |-> IF buildTableXml(node) = <<>> THEN <<>>
                               ELSE <<buildTableXml(node), emptyParagraphXml>>,
                    counters |-> counters, ctx |-> c],
          ordered |-> NoOrderedList]

(***************************************************************************)
(* Specification of the export entry points: exportToPdf                   *)
(* (pdf-export.ts:285-307, its rendering being the specification Spec),    *)
(* the rich exportToWord (1667-1800) and the plain-text exportToWord       *)
(* (1185-1614).                                                            *)
(***************************************************************************)
\* nodes of the document: headings of level 1, 2 and 3, a paragraph with
\* characters to escape, an image that loads, one that does not decode and
\* one whose source is no data URL
WordNodes ==
    { TextNode(<<"1", " ", "A">>), TextNode(<<"1", ".", "1", " ", "B">>), TextNode(<<"<", "\"", "\f", "&", " ", " ", ">">>),
      TextNode(<<"1", ".", "1", ".", "1", " ", "C">>),
      ImageNode("data:28x8"), ImageNode("data:broken"), ImageNode("https:remote") }

\* the paragraph of a template that holds the title and subtitle markers,
\* each in one run or split over two runs
MarkerParagraphs ==
    [whole |-> <<"<", "w", ":", "p", ">", "<", "w", ":", "t", ">", "{", "{", "t", "i", "t", "l", "e", "}", "}", "<", "/", "w", ":", "t", ">", "<", "w", ":", "t", ">", "{", "{", "s", "u", "b", "t", "i", "t", "l", "e", "}", "}", "<", "/", "w", ":", "t", ">", "<", "/", "w", ":", "p", ">">>,
     split |-> <<"<", "w", ":", "p", ">", "<", "w", ":", "t", ">", "{", "{", "<", "/", "w", ":", "t", ">", "<", "w", ":", "t", ">", "t", "i", "t", "l", "e", "}", "}", "<", "/", "w", ":", "t", ">", "<", "w", ":", "t", ">", "{", "{", "<", "/", "w", ":", "t", ">", "<", "w", ":", "t", ">", "s", "u", "b", "t", "i", "t", "l", "e", "}", "}", "<", "/", "w", ":", "t", ">", "<", "/", "w", ":", "p", ">">>]

\* the response to the fetch of the template, the company of the template
\* (types.ts:1) and, when the response is ok, the parts of the package.  word/document.xml has the content marker in a paragraph
\* opened by <w:p> or by <w:p with an attribute, absent, between two
\* paragraphs, before any paragraph, or in a paragraph that is not closed
DocxTemplates ==
    { [ok |-> TRUE, documentXml |-> xml, headerXml |-> <<"<", "w", ":", "t", ">", "{", "{", "t", "i", "t", "l", "e", "}", "}", "<", "/", "w", ":", "t", ">">>,
       rels |-> <<[id |-> 1, target |-> 0], [id |-> 3, target |-> 2]>>,
       images |-> {2}, docPrIds |-> {2}, company |-> company] : company \in {"IHM", "IHNA"}, xml \in
    { MarkerParagraphs.whole \o <<"<", "w", ":", "p", ">", "{", "{", "c", "o", "n", "t", "e", "n", "t", "}", "}", "<", "/", "w", ":", "p", ">", "<", "w", ":", "p", ">", "z", "<", "/", "w", ":", "p", ">">>,
      MarkerParagraphs.split \o <<"<", "w", ":", "p", ">", "{", "{", "c", "o", "n", "t", "e", "n", "t", "}", "}", "<", "/", "w", ":", "p", ">", "<", "w", ":", "p", ">", "z", "<", "/", "w", ":", "p", ">">>,
      MarkerParagraphs.whole \o <<"<", "w", ":", "p", " ", "w", ":", "r", "=", "\"", "1", "\"", ">", "{", "{", "c", "o", "n", "t", "e", "n", "t", "}", "}", "<", "/", "w", ":", "p", ">", "<", "w", ":", "p", ">", "z", "<", "/", "w", ":", "p", ">">>,
      <<"<", "w", ":", "p", " ", "w", ":", "r", "=", "\"", "1", "\"", ">", "{", "{", "c", "o", "n", "t", "e", "n", "t", "}", "}", "<", "/", "w", ":", "p", ">", "<", "w", ":", "p", ">", "z", "<", "/", "w", ":", "p", ">">>,
      MarkerParagraphs.whole \o <<"<", "w", ":", "p", ">", "z", "<", "/", "w", ":", "p", ">">>,
      MarkerParagraphs.whole \o <<"{", "{", "c", "o", "n", "t", "e", "n", "t", "}", "}", "<", "w", ":", "p", ">", "z", "<", "/", "w", ":", "p", ">">>,
      <<"{", "{", "c", "o", "n", "t", "e", "n", "t", "}", "}", "<", "w", ":", "p", ">", "z", "<", "/", "w", ":", "p", ">">>,
      MarkerParagraphs.whole \o <<"<", "w", ":", "p", ">", "{", "{", "c", "o", "n", "t", "e", "n", "t", "}", "}">> } }
    \cup { [ok |-> FALSE, documentXml |-> <<>>, headerXml |-> <<>>,
            rels |-> <<>>, images |-> {}, docPrIds |-> {}, company |-> "IHNA"] }

\* an allocation that counts the ids in use instead of taking the largest
OneMoreThanCount(ids) == Cardinality(ids) + 1

\* lines 2470-2499: one more than the largest id in use
NextId(ids) == IF ids = {} THEN 1 ELSE (CHOOSE i \in ids : \A j \in ids : i >= j) + 1

WordInit ==
    /\ entry \in {"exportToPdf", "exportToWord", "exportToWordPlain"}
    /\ docx \in DocxTemplates
    /\ docTitle \in { <<"T">>, <<"a", "\t", "&", "<", "b">>, <<"$", "1">> }
    /\ docSubtitle \in { <<>>, <<"s", "'", "s">> }
    /\ doc \in UNION { [1..n -> WordNodes] : n \in 0..MaxBlocks }
    /\ updatedXml = <<>>
    /\ richCtx = WordUnused.richCtx
    /\ headingNumbers = <<>>
    /\ wordBlocks = <<>>
    /\ nodeIndex = 0
    /\ wordPc = "fetch"
    /\ saved = WordUnused.saved
    /\ error = "none"
    /\ template = PdfUnused.template
    /\ layout = PdfUnused.layout
    /\ blocks = PdfUnused.blocks
    /\ outPages = PdfUnused.outPages
    /\ cursorY = PdfUnused.cursorY
    /\ placed = PdfUnused.placed
    /\ pc = PdfUnused.pc
    /\ currentNumbers = NumUnused.currentNumbers
    /\ emitted = NumUnused.emitted
    /\ last = NumUnused.last
    /\ numPc = NumUnused.numPc
    /\ block = ParaUnused.block
    /\ box = ParaUnused.box
    /\ lines = ParaUnused.lines
    /\ drawnLines = ParaUnused.drawnLines
    /\ paraPc = ParaUnused.paraPc
    /\ table = TableUnused.table
    /\ returnedHeights = TableUnused.returnedHeights
    /\ renders = RendersUnused
    /\ request = ClassifyUnused.request
    /\ reply = ClassifyUnused.reply
    /\ labels = ClassifyUnused.labels
    /\ orderedCounter = ListUnused.orderedCounter
    /\ inOrderedList = ListUnused.inOrderedList
    /\ inputs = PreviewUnused.inputs
    /\ mounted = PreviewUnused.mounted
    /\ effects = PreviewUnused.effects
    /\ previewUrl = PreviewUnused.previewUrl
    /\ liveUrls = PreviewUnused.liveUrls
    /\ measured = MeasureUnused.measured

\* an exportToWord whose plain-text variant rejects like the other two
RejectsInEveryEntry(e) == "failed"

\* where a response that is not ok leads: lines 116-119 and 1712-1715 throw
\* to the caller; the plain-text exportToWord catches the error of
\* exportFromTemplate and goes on to generate a document (lines 1186-1193)
AfterFailedFetch(e) == IF e = "exportToWordPlain" THEN "fallback" ELSE "failed"

\* the fetch of the template and the test of response.ok
FetchDocx ==
    /\ wordPc = "fetch"
    /\ wordPc' = IF ~docx.ok THEN AfterFailedFetch(entry)
                 ELSE IF entry = "exportToWord" THEN "loaded" ELSE "generated"
    /\ error' = IF ~docx.ok /\ AfterFailedFetch(entry) = "failed"
                THEN "Template download failed" ELSE error
    /\ UNCHANGED <<entry, docx, docTitle, docSubtitle, updatedXml, richCtx, headingNumbers,
                   wordBlocks, nodeIndex, saved>>
    /\ UNCHANGED <<numVars, paraVars, pdfVars, tableVars, renders, classifyVars, listVars, previewVars, measureVars>>

\* lines 1717-1773 and 1919-1920: the context with its three counters, the
\* title and subtitle markers replaced, the heading counters at zero.  The
\* relationships part is the sequence of its Relationship elements, each with
\* the number of its rId and the number of the media/image file it targets
\* (0 for a part that is no such image); the media are the numbers of the
\* word/media/image files of the package
LoadTemplate ==
    /\ wordPc = "loaded"
    /\ richCtx' = [header |-> docx.headerXml, media |-> docx.images, rels |-> docx.rels,
                   nextRelId |-> NextId({ docx.rels[i].id : i \in 1..Len(docx.rels) }),
                   nextImageId |-> NextId(docx.images),
                   nextDocPrId |-> NextId(docx.docPrIds)]
    /\ updatedXml' = TitleRuns(applyTemplatePlaceholders(docx.documentXml, docTitle, docSubtitle),
                                docx.company, docTitle, docSubtitle)
    /\ headingNumbers' = <<0, 0, 0, 0, 0, 0>>
    /\ wordPc' = "blocks"
    /\ UNCHANGED <<entry, docx, docTitle, docSubtitle, wordBlocks, nodeIndex, saved, error>>
    /\ UNCHANGED <<numVars, paraVars, pdfVars, tableVars, renders, classifyVars, listVars, previewVars, measureVars>>

\* one turn of the loop of tiptapToOpenXmlBlocks
BuildBlock ==
    /\ wordPc = "blocks"
    /\ nodeIndex < Len(doc)
    /\ \E step \in { OpenXmlBlock(doc[nodeIndex + 1], headingNumbers, richCtx) } :
           /\ wordBlocks' = wordBlocks \o step.blocks
           /\ headingNumbers' = step.counters
           /\ richCtx' = step.ctx
    /\ nodeIndex' = nodeIndex + 1
    /\ UNCHANGED <<entry, docx, docTitle, docSubtitle, updatedXml, wordPc, saved, error>>
    /\ UNCHANGED <<numVars, paraVars, pdfVars, tableVars, renders, classifyVars, listVars, previewVars, measureVars>>

\* lines 2041-2045 and 1782-1799: the blocks take the place of the content
\* paragraph, or the error of replaceParagraphContainingPlaceholder rejects
\* the export; then the header gets its title and subtitle
Splice ==
    /\ wordPc = "blocks"
    /\ nodeIndex = Len(doc)
    /\ \E pushed \in { IF wordBlocks = <<>> THEN <<emptyParagraphXml>> ELSE wordBlocks } :
       \E result \in { replaceParagraphContainingPlaceholder(updatedXml, <<"{", "{", "c", "o", "n", "t", "e", "n", "t", "}", "}">>,
                                                             pushed) } :
           /\ wordBlocks' = pushed
           /\ error' = result.error
           /\ wordPc' = IF result.error = "none" THEN "generated" ELSE "failed"
           /\ updatedXml' = IF result.error = "none" THEN result.xml ELSE updatedXml
           /\ richCtx' = IF result.error = "none"
                         THEN [richCtx EXCEPT !.header =
                                  applyTemplatePlaceholders(@, docTitle, docSubtitle)]
                         ELSE richCtx
    /\ UNCHANGED <<entry, docx, docTitle, docSubtitle, headingNumbers, nodeIndex, saved>>
    /\ UNCHANGED <<numVars, paraVars, pdfVars, tableVars, renders, classifyVars, listVars, previewVars, measureVars>>

\* saveAs(blob, filename) with the bytes or the package that was built
\* (lines 303-306, 1608-1613, 1684-1688)
SaveExport ==
    /\ wordPc = "generated"
    /\ saved' = [by |-> entry, xml |-> updatedXml]
    /\ wordPc' = "done"
    /\ UNCHANGED <<entry, docx, docTitle, docSubtitle, updatedXml, richCtx, headingNumbers,
                   wordBlocks, nodeIndex, error>>
    /\ UNCHANGED <<numVars, paraVars, pdfVars, tableVars, renders, classifyVars, listVars, previewVars, measureVars>>

\* lines 1195-1570: the plain-text exportToWord builds a document with the
\* docx library and saves it
GenerateFallback ==
    /\ wordPc = "fallback"
    /\ saved' = [by |-> "generated DOCX", xml |-> <<>>]
    /\ wordPc' = "done"
    /\ UNCHANGED <<entry, docx, docTitle, docSubtitle, updatedXml, richCtx, headingNumbers,
                   wordBlocks, nodeIndex, error>>
    /\ UNCHANGED <<numVars, paraVars, pdfVars, tableVars, renders, classifyVars, listVars, previewVars, measureVars>>

WordNext == FetchDocx \/ LoadTemplate \/ BuildBlock \/ Splice \/ SaveExport \/ GenerateFallback

SpecWord == WordInit /\ [][WordNext]_vars

\* titles and subtitles that hold the text of a marker of the template
InjectedTitles == { <<"T">>, <<"{", "{", "s", "u", "b", "t", "i", "t", "l", "e", "}", "}">>, <<"{", "{", "c", "o", "n", "t", "e", "n", "t", "}", "}">> }

InjectedSubtitles == { <<"s">>, <<"{", "{", "c", "o", "n", "t", "e", "n", "t", "}", "}">> }

\* the rich and the other exports of a document whose title, subtitle or
\* content holds the text of a marker
InjectInit ==
    /\ entry \in {"exportToPdf", "exportToWord", "exportToWordPlain"}
    /\ docx \in DocxTemplates
    /\ docTitle \in InjectedTitles
    /\ docSubtitle \in InjectedSubtitles
    /\ doc \in { <<>>, <<TextNode(<<"x">>)>>, <<TextNode(<<"{", "{", "t", "i", "t", "l", "e", "}", "}">>)>> }
    /\ updatedXml = <<>>
    /\ richCtx = WordUnused.richCtx
    /\ headingNumbers = <<>>
    /\ wordBlocks = <<>>
    /\ nodeIndex = 0
    /\ wordPc = "fetch"
    /\ saved = WordUnused.saved
    /\ error = "none"
    /\ template = PdfUnused.template
    /\ layout = PdfUnused.layout
    /\ blocks = PdfUnused.blocks
    /\ outPages = PdfUnused.outPages
    /\ cursorY = PdfUnused.cursorY
    /\ placed = PdfUnused.placed
    /\ pc = PdfUnused.pc
    /\ currentNumbers = NumUnused.currentNumbers
    /\ emitted = NumUnused.emitted
    /\ last = NumUnused.last
    /\ numPc = NumUnused.numPc
    /\ block = ParaUnused.block
    /\ box = ParaUnused.box
    /\ lines = ParaUnused.lines
    /\ drawnLines = ParaUnused.drawnLines
    /\ paraPc = ParaUnused.paraPc
    /\ table = TableUnused.table
    /\ returnedHeights = TableUnused.returnedHeights
    /\ renders = RendersUnused
    /\ request = ClassifyUnused.request
    /\ reply = ClassifyUnused.reply
    /\ labels = ClassifyUnused.labels
    /\ orderedCounter = ListUnused.orderedCounter
    /\ inOrderedList = ListUnused.inOrderedList
    /\ inputs = PreviewUnused.inputs
    /\ mounted = PreviewUnused.mounted
    /\ effects = PreviewUnused.effects
    /\ previewUrl = PreviewUnused.previewUrl
    /\ liveUrls = PreviewUnused.liveUrls
    /\ measured = MeasureUnused.measured

SpecInject == InjectInit /\ [][WordNext]_vars

(***************************************************************************)
(* Specification of two renders in flight at once, each a buildPdfBytes    *)
(* or a buildDocxBlobFromTemplateRich, their steps interleaved in every    *)
(* order.                                                                  *)
(***************************************************************************)
\* what a render creates when it starts: the normalizer's empty counter
\* stack (tiptap-utils.ts:27, created at pdf-export.ts:223) or the six
\* heading counters (line 1920), and the context with the three id counters
\* read from the template (lines 1745-1751)
FreshRenderState(engine) ==
    [numbers |-> IF engine = "pdf" THEN <<>> ELSE <<0, 0, 0, 0, 0, 0>>,
     ctx |-> [header |-> <<>>, media |-> {1},
              rels |-> <<[id |-> 1, target |-> 0], [id |-> 2, target |-> 1]>>,
              nextRelId |-> 3, nextImageId |-> 2, nextDocPrId |-> 1]]

\* one node rendered by the engine: the blocks it yields, and the counters
\* and the context after it
RenderedNode(engine, node, numbers, c) ==
    IF engine = "pdf"
    THEN [blocks |-> tiptapToPdfBlocks(<<node>>, numbers, "left"),
          counters |-> IF node.type = "paragraph" /\ node.runs # <<>>
                       THEN NormalizeNumbering(numbers, fullText(node.runs)).numbers
                       ELSE numbers,
          ctx |-> c]
    ELSE OpenXmlBlock(node, numbers, c)

RendersInit ==
    /\ renders \in [{1, 2} ->
           { [engine |-> e, doc |-> d, started |-> FALSE, numbers |-> <<>>,
              ctx |-> WordUnused.richCtx, visited |-> 0, out |-> <<>>] :
                e \in {"pdf", "word"},
                d \in UNION { [1..n -> {TextNode(<<"1", " ", "A">>), TextNode(<<"1", ".", "1", " ", "B">>),
                                          ImageNode("data:28x8")}] : n \in 0..MaxBlocks } }]
    /\ currentNumbers = NumUnused.currentNumbers
    /\ emitted = NumUnused.emitted
    /\ last = NumUnused.last
    /\ numPc = NumUnused.numPc
    /\ block = ParaUnused.block
    /\ box = ParaUnused.box
    /\ lines = ParaUnused.lines
    /\ drawnLines = ParaUnused.drawnLines
    /\ paraPc = ParaUnused.paraPc
    /\ template = PdfUnused.template
    /\ layout = PdfUnused.layout
    /\ doc = PdfUnused.doc
    /\ blocks = PdfUnused.blocks
    /\ outPages = PdfUnused.outPages
    /\ cursorY = PdfUnused.cursorY
    /\ placed = PdfUnused.placed
    /\ pc = PdfUnused.pc
    /\ table = TableUnused.table
    /\ returnedHeights = TableUnused.returnedHeights
    /\ entry = WordUnused.entry
    /\ docx = WordUnused.docx
    /\ docTitle = WordUnused.docTitle
    /\ docSubtitle = WordUnused.docSubtitle
    /\ updatedXml = WordUnused.updatedXml
    /\ richCtx = WordUnused.richCtx
    /\ headingNumbers = WordUnused.headingNumbers
    /\ wordBlocks = WordUnused.wordBlocks
    /\ nodeIndex = WordUnused.nodeIndex
    /\ wordPc = WordUnused.wordPc
    /\ saved = WordUnused.saved
    /\ error = WordUnused.error
    /\ request = ClassifyUnused.request
    /\ reply = ClassifyUnused.reply
    /\ labels = ClassifyUnused.labels
    /\ orderedCounter = ListUnused.orderedCounter
    /\ inOrderedList = ListUnused.inOrderedList
    /\ inputs = PreviewUnused.inputs
    /\ mounted = PreviewUnused.mounted
    /\ effects = PreviewUnused.effects
    /\ previewUrl = PreviewUnused.previewUrl
    /\ liveUrls = PreviewUnused.liveUrls
    /\ measured = MeasureUnused.measured

\* a render starts: it creates its counters and its context
StartRender ==
    /\ \E r \in {1, 2} :
           /\ ~renders[r].started
           /\ renders' = [renders EXCEPT ![r].started = TRUE,
                                         ![r].numbers = FreshRenderState(renders[r].engine).numbers,
                                         ![r].ctx = FreshRenderState(renders[r].engine).ctx]
    /\ UNCHANGED <<numVars, paraVars, pdfVars, tableVars, wordVars, classifyVars, listVars, previewVars, measureVars>>

\* renders that count on the counters and the context of the first render
StateOfFirstRender(rs, r) == rs[1]

\* the counters and the context a render works on: those it created
StateOfRender(rs, r) == rs[r]

\* a render visits its next node
RenderNextNode ==
    /\ \E r \in {1, 2} :
           /\ renders[r].started
           /\ renders[r].visited < Len(renders[r].doc)
           /\ \E step \in { RenderedNode(renders[r].engine,
                                         renders[r].doc[renders[r].visited + 1],
                                         StateOfRender(renders, r).numbers,
                                         StateOfRender(renders, r).ctx) } :
                  renders' = [renders EXCEPT ![r].visited = @ + 1,
                                             ![r].out = @ \o step.blocks,
                                             ![r].numbers = step.counters,
                                             ![r].ctx = step.ctx]
    /\ UNCHANGED <<numVars, paraVars, pdfVars, tableVars, wordVars, classifyVars, listVars, previewVars, measureVars>>

SpecRenders == RendersInit /\ [][StartRender \/ RenderNextNode]_vars

(***************************************************************************)
(* Specification of the two conversions of one document: tiptapToPdfBlocks *)
(* (pdf-export.ts:511-613), which renderRichContent calls once, and the    *)
(* loop of tiptapToOpenXmlBlocks (1918-2046), one turn per node.           *)
(***************************************************************************)
\* one ordered list with a nested ordered list, one whose item has a second
\* paragraph without text, a bullet list, a paragraph without content, one
\* with text, a heading without content and one with text, and two tables
FlattenNodes ==
    { ListNode("orderedList",
               << ListItem(<<TextNode(<<"a">>)>>),
                  ListItem(<<TextNode(<<"b">>),
                             ListNode("orderedList", <<ListItem(<<TextNode(<<"c">>)>>)>>)>>) >>),
      ListNode("orderedList", << ListItem(<<TextNode(<<"d">>), ParagraphNode(<<>>)>>) >>),
      ListNode("bulletList", << ListItem(<<TextNode(<<"e">>)>>) >>),
      ParagraphNode(<<>>), TextNode(<<"x">>), HeadingOf(<<>>), HeadingOf(<<Run(<<"H">>, Plain)>>),
      TableNode,
      [type |-> "table", rows |-> << <<Cell(<<"A">>, 2, 1), Cell(<<"b">>, 1, 2)>>, <<Cell(<<>>, 2, 1)>> >>] }

FlattenInit ==
    /\ doc \in UNION { [1..n -> FlattenNodes] : n \in 0..MaxNodes }
    /\ blocks = <<>>
    /\ pc = "flatten"
    /\ wordBlocks = <<>>
    /\ nodeIndex = 0
    /\ headingNumbers = <<0, 0, 0, 0, 0, 0>>
    /\ richCtx = FreshRenderState("word").ctx
    /\ wordPc = "blocks"
    /\ orderedCounter = NoOrderedList.orderedCounter
    /\ inOrderedList = NoOrderedList.inOrderedList
    /\ currentNumbers = NumUnused.currentNumbers
    /\ emitted = NumUnused.emitted
    /\ last = NumUnused.last
    /\ numPc = NumUnused.numPc
    /\ block = ParaUnused.block
    /\ box = ParaUnused.box
    /\ lines = ParaUnused.lines
    /\ drawnLines = ParaUnused.drawnLines
    /\ paraPc = ParaUnused.paraPc
    /\ template = PdfUnused.template
    /\ layout = PdfUnused.layout
    /\ outPages = PdfUnused.outPages
    /\ cursorY = PdfUnused.cursorY
    /\ placed = PdfUnused.placed
    /\ table = TableUnused.table
    /\ returnedHeights = TableUnused.returnedHeights
    /\ entry = WordUnused.entry
    /\ docx = WordUnused.docx
    /\ docTitle = WordUnused.docTitle
    /\ docSubtitle = WordUnused.docSubtitle
    /\ updatedXml = WordUnused.updatedXml
    /\ saved = WordUnused.saved
    /\ error = WordUnused.error
    /\ renders = RendersUnused
    /\ request = ClassifyUnused.request
    /\ reply = ClassifyUnused.reply
    /\ labels = ClassifyUnused.labels
    /\ inputs = PreviewUnused.inputs
    /\ mounted = PreviewUnused.mounted
    /\ effects = PreviewUnused.effects
    /\ previewUrl = PreviewUnused.previewUrl
    /\ liveUrls = PreviewUnused.liveUrls
    /\ measured = MeasureUnused.measured

\* line 489
FlattenPdf ==
    /\ pc = "flatten"
    /\ blocks' = tiptapToPdfBlocks(doc, <<>>, "left")
    /\ pc' = "flattened"
    /\ UNCHANGED <<template, layout, doc, outPages, cursorY, placed>>
    /\ UNCHANGED <<numVars, paraVars, tableVars, wordVars, renders, classifyVars, listVars, previewVars, measureVars>>

\* one turn of the loop of tiptapToOpenXmlBlocks
BuildNode ==
    /\ wordPc = "blocks"
    /\ nodeIndex < Len(doc)
    /\ \E turn \in { OpenXmlNode(doc[nodeIndex + 1], headingNumbers, richCtx,
                                 [orderedCounter |-> orderedCounter,
                                  inOrderedList |-> inOrderedList]) } :
           /\ wordBlocks' = wordBlocks \o turn.step.blocks
           /\ headingNumbers' = turn.step.counters
           /\ richCtx' = turn.step.ctx
           /\ orderedCounter' = turn.ordered.orderedCounter
           /\ inOrderedList' = turn.ordered.inOrderedList
    /\ nodeIndex' = nodeIndex + 1
    /\ UNCHANGED <<entry, docx, docTitle, docSubtitle, updatedXml, wordPc, saved, error>>
    /\ UNCHANGED <<numVars, paraVars, pdfVars, tableVars, renders, classifyVars, previewVars, measureVars>>

\* lines 2041-2045
ReturnBlocks ==
    /\ wordPc = "blocks"
    /\ nodeIndex = Len(doc)
    /\ wordBlocks' = IF wordBlocks = <<>> THEN <<emptyParagraphXml>> ELSE wordBlocks
    /\ wordPc' = "built"
    /\ UNCHANGED <<entry, docx, docTitle, docSubtitle, updatedXml, richCtx, headingNumbers,
                   nodeIndex, saved, error>>
    /\ UNCHANGED <<numVars, paraVars, pdfVars, tableVars, renders, classifyVars, listVars, previewVars, measureVars>>

SpecFlatten == FlattenInit /\ [][FlattenPdf \/ BuildNode \/ ReturnBlocks]_vars

(***************************************************************************)
(* Specification of the heading classification: the route POST            *)
(* (app/api/heading-classify/route.ts) and fetchHeadingLabels              *)
(* (components/text-editor.tsx:138-150), which hands the labels to         *)
(* buildPdfBytes.                                                          *)
(***************************************************************************)
\* route.ts:10-17, for lines of at most 60 characters: the trimmed line is
\* not empty, has at most 8 words, does not end in . ! ? and begins with
\* /^(\d+(\.\d+)*|[A-Z]|[IVXLC]+)[\).]?\s+/
isHeadingCandidate(line) ==
    LET trimmed == Trim(line)
        IsPath(p) == /\ IsDigit(p[1]) /\ IsDigit(p[Len(p)])
                     /\ \A i \in 1..Len(p) : IsDigit(p[i]) \/ p[i] = "."
                     /\ \A i \in 1..(Len(p) - 1) : ~(p[i] = "." /\ p[i + 1] = ".")
        IsMarker(p) == \/ IsPath(p)
                       \/ (Len(p) = 1 /\ p[1] \in {"A", "B", "C", "D", "E", "I", "V", "X", "L"})
                       \/ \A i \in 1..Len(p) : p[i] \in {"I", "V", "X", "L", "C"}
    IN  /\ trimmed # <<>>
        /\ Cardinality({ i \in 2..Len(trimmed) :
                            IsSpace(trimmed[i - 1]) /\ ~IsSpace(trimmed[i]) }) + 1 <= 8
        /\ trimmed[Len(trimmed)] \notin {".", "!", "?"}
        /\ \E e \in 1..Len(trimmed) :
               /\ IsMarker(SubSeq(trimmed, 1, e))
               /\ \E k \in {e, e + 1} :
                      /\ k < Len(trimmed)
                      /\ k = e + 1 => trimmed[k] \in {")", "."}
                      /\ IsSpace(trimmed[k + 1])

\* route.ts:19-36
localClassify(ls) ==
    [i \in 1..Len(ls) |->
        IF Trim(ls[i]) = <<>> THEN "blank"
        ELSE IF isHeadingCandidate(ls[i]) THEN "heading" ELSE "body"]

\* route.ts:38-60: the labels of the service are never read; every line is
\* labelled as localClassify labels it
normalizeLabels(ls, given) == localClassify(ls)

\* route.ts:62-114: the response of POST; a service call that throws is
\* caught at lines 111-113 and answered with status 500 and no labels
POST(req) ==
    IF req.service = "no key" THEN [status |-> 200, labels |-> localClassify(req.lines)]
    ELSE IF req.service = "throws" THEN [status |-> 500, labels |-> <<>>]
    ELSE IF ~req.answer.parsed \/ req.answer.labels = <<>>
            \/ Len(req.answer.labels) # Len(req.lines)
         THEN [status |-> 200, labels |-> localClassify(req.lines)]
         ELSE [status |-> 200, labels |-> normalizeLabels(req.lines, req.answer.labels)]

\* the lines of the editor's content, and what the service does: no API
\* key, a call that throws, or an answer that is unparsable or an array of
\* labels
ClassifyInit ==
    /\ request \in
           { [lines |-> ls, service |-> s, answer |-> a] :
                ls \in UNION { [1..n -> { <<>>, <<"1", ".", " ", "A">>, <<"a", "b">>, <<" ", " ">> }] : n \in 1..MaxLines },
                s \in {"no key", "throws", "answers"},
                a \in { [parsed |-> FALSE, labels |-> <<>>] }
                        \cup { [parsed |-> TRUE, labels |-> given] :
                                  given \in UNION { [1..n -> {"heading", "body", "blank"}] :
                                                       n \in 0..MaxLines } } }
    /\ reply = ClassifyUnused.reply
    /\ labels = ClassifyUnused.labels
    /\ orderedCounter = ListUnused.orderedCounter
    /\ inOrderedList = ListUnused.inOrderedList
    /\ inputs = PreviewUnused.inputs
    /\ mounted = PreviewUnused.mounted
    /\ effects = PreviewUnused.effects
    /\ previewUrl = PreviewUnused.previewUrl
    /\ liveUrls = PreviewUnused.liveUrls
    /\ measured = MeasureUnused.measured
    /\ renders = RendersUnused
    /\ currentNumbers = NumUnused.currentNumbers
    /\ emitted = NumUnused.emitted
    /\ last = NumUnused.last
    /\ numPc = NumUnused.numPc
    /\ block = ParaUnused.block
    /\ box = ParaUnused.box
    /\ lines = ParaUnused.lines
    /\ drawnLines = ParaUnused.drawnLines
    /\ paraPc = ParaUnused.paraPc
    /\ template = PdfUnused.template
    /\ layout = PdfUnused.layout
    /\ doc = PdfUnused.doc
    /\ blocks = PdfUnused.blocks
    /\ outPages = PdfUnused.outPages
    /\ cursorY = PdfUnused.cursorY
    /\ placed = PdfUnused.placed
    /\ pc = PdfUnused.pc
    /\ table = TableUnused.table
    /\ returnedHeights = TableUnused.returnedHeights
    /\ entry = WordUnused.entry
    /\ docx = WordUnused.docx
    /\ docTitle = WordUnused.docTitle
    /\ docSubtitle = WordUnused.docSubtitle
    /\ updatedXml = WordUnused.updatedXml
    /\ richCtx = WordUnused.richCtx
    /\ headingNumbers = WordUnused.headingNumbers
    /\ wordBlocks = WordUnused.wordBlocks
    /\ nodeIndex = WordUnused.nodeIndex
    /\ wordPc = WordUnused.wordPc
    /\ saved = WordUnused.saved
    /\ error = WordUnused.error

\* content.trim() of text-editor.tsx:139 is empty: every line is blank
BlankContent(ls) == \A i \in 1..Len(ls) : Trim(ls[i]) = <<>>

\* text-editor.tsx:139: if (!content.trim()) return null
SkipClassify ==
    /\ labels.handed = "nothing"
    /\ BlankContent(request.lines)
    /\ labels' = [handed |-> "null", labels |-> <<>>]
    /\ UNCHANGED <<request, reply>>
    /\ UNCHANGED <<numVars, paraVars, pdfVars, tableVars, wordVars, renders, listVars, previewVars, measureVars>>

\* the route answers the request
Post ==
    /\ reply.status = 0
    /\ ~BlankContent(request.lines)
    /\ reply' = POST(request)
    /\ UNCHANGED <<request, labels>>
    /\ UNCHANGED <<numVars, paraVars, pdfVars, tableVars, wordVars, renders, listVars, previewVars, measureVars>>

\* text-editor.tsx:145-149: if (!response.ok) return null; else data.labels
ReceiveLabels ==
    /\ reply.status # 0
    /\ labels.handed = "nothing"
    /\ labels' = IF reply.status = 200 THEN [handed |-> "labels", labels |-> reply.labels]
                 ELSE [handed |-> "null", labels |-> <<>>]
    /\ UNCHANGED <<request, reply>>
    /\ UNCHANGED <<numVars, paraVars, pdfVars, tableVars, wordVars, renders, listVars, previewVars, measureVars>>

SpecClassify == ClassifyInit /\ [][SkipClassify \/ Post \/ ReceiveLabels]_vars

(***************************************************************************)
(* Specification of the preview of TextEditor: the effect of               *)
(* components/text-editor.tsx:89-135, which runs again, after the cleanup  *)
(* of its previous run, whenever content, documentTitle, documentSubtitle, *)
(* layout or template has changed, and the steps of updatePreview, which   *)
(* are interleaved with the changes in every order.                        *)
(***************************************************************************)
MaxChanges == 3

\* the values of the dependencies of the effect: the three texts taken
\* together (none, blank ones, or some text) and the layout and template
PreviewInputs ==
    { [text |-> t, layout |-> l] : t \in {<<>>, <<" ">>, <<"a">>}, l \in {1, 2} }

\* useState<string | null>(null): line 37
NoPreview == PreviewUnused.previewUrl

\* the object URL of the PDF the k-th run of the effect has built
BlobUrl(k, in) == [effect |-> k, inputs |-> in]

\* lines 91-92 and 125-127: isActive is true and the timer is set
NewEffect(in) ==
    [inputs |-> in, isActive |-> TRUE, timer |-> "pending", stage |-> "debounce",
     outcome |-> "none"]

\* the cleanup of the last run of the effect (129-134): isActive becomes
\* false and a timer that has not fired is cleared
Cleanup(effs) ==
    IF effs = <<>> THEN effs
    ELSE [effs EXCEPT ![Len(effs)].isActive = FALSE,
                       ![Len(effs)].timer = IF @ = "pending" THEN "cleared" ELSE @]

\* a run of the effect that takes itself for active whatever its cleanup did
AlwaysActive(e) == TRUE

\* the flag the continuations of updatePreview read: lines 96, 112 and 119
IsActive(e) == e.isActive

\* line 95
AllBlank(in) == Trim(in.text) = <<>>

PreviewInit ==
    /\ inputs \in PreviewInputs
    /\ mounted = TRUE
    /\ effects = <<NewEffect(inputs)>>
    /\ previewUrl = NoPreview
    /\ liveUrls = {}
    /\ measured = MeasureUnused.measured
    /\ currentNumbers = NumUnused.currentNumbers
    /\ emitted = NumUnused.emitted
    /\ last = NumUnused.last
    /\ numPc = NumUnused.numPc
    /\ block = ParaUnused.block
    /\ box = ParaUnused.box
    /\ lines = ParaUnused.lines
    /\ drawnLines = ParaUnused.drawnLines
    /\ paraPc = ParaUnused.paraPc
    /\ template = PdfUnused.template
    /\ layout = PdfUnused.layout
    /\ doc = PdfUnused.doc
    /\ blocks = PdfUnused.blocks
    /\ outPages = PdfUnused.outPages
    /\ cursorY = PdfUnused.cursorY
    /\ placed = PdfUnused.placed
    /\ pc = PdfUnused.pc
    /\ table = TableUnused.table
    /\ returnedHeights = TableUnused.returnedHeights
    /\ entry = WordUnused.entry
    /\ docx = WordUnused.docx
    /\ docTitle = WordUnused.docTitle
    /\ docSubtitle = WordUnused.docSubtitle
    /\ updatedXml = WordUnused.updatedXml
    /\ richCtx = WordUnused.richCtx
    /\ headingNumbers = WordUnused.headingNumbers
    /\ wordBlocks = WordUnused.wordBlocks
    /\ nodeIndex = WordUnused.nodeIndex
    /\ wordPc = WordUnused.wordPc
    /\ saved = WordUnused.saved
    /\ error = WordUnused.error
    /\ renders = RendersUnused
    /\ request = ClassifyUnused.request
    /\ reply = ClassifyUnused.reply
    /\ labels = ClassifyUnused.labels
    /\ orderedCounter = ListUnused.orderedCounter
    /\ inOrderedList = ListUnused.inOrderedList

PreviewOthersUnchanged ==
    UNCHANGED <<numVars, paraVars, pdfVars, tableVars, wordVars, renders, classifyVars, listVars,
                measureVars>>

\* a dependency changes: the cleanup of the last run, then the effect again
ChangeInputs ==
    /\ mounted
    /\ Len(effects) < MaxChanges
    /\ \E in \in PreviewInputs \ {inputs} :
           /\ inputs' = in
           /\ effects' = Append(Cleanup(effects), NewEffect(in))
    /\ UNCHANGED <<mounted, previewUrl, liveUrls>>
    /\ PreviewOthersUnchanged

\* TextEditor is unmounted: the cleanup of the last run
Unmount ==
    /\ mounted
    /\ mounted' = FALSE
    /\ effects' = Cleanup(effects)
    /\ UNCHANGED <<inputs, previewUrl, liveUrls>>
    /\ PreviewOthersUnchanged

\* the timer of a run fires after 500 ms (125-127) and updatePreview runs up
\* to its first await: lines 95-103
TimerFires ==
    /\ \E k \in 1..Len(effects) :
           /\ effects[k].timer = "pending"
           /\ IF AllBlank(effects[k].inputs)
              THEN /\ effects' = [effects EXCEPT ![k].timer = "fired", ![k].stage = "returned",
                                                 ![k].outcome = "blank"]
                   /\ previewUrl' = IF IsActive(effects[k]) THEN NoPreview ELSE previewUrl
              ELSE /\ effects' = [effects EXCEPT ![k].timer = "fired", ![k].stage = "labels"]
                   /\ UNCHANGED previewUrl
    /\ UNCHANGED <<inputs, mounted, liveUrls>>
    /\ PreviewOthersUnchanged

\* what catch does: lines 118-122
Caught(k) ==
    /\ effects' = [effects EXCEPT ![k].stage = "returned", ![k].outcome = "failed"]
    /\ previewUrl' = IF IsActive(effects[k]) THEN NoPreview ELSE previewUrl
    /\ UNCHANGED liveUrls

\* fetchHeadingLabels settles (103): updatePreview goes on to buildPdfBytes,
\* or to catch
LabelsSettle ==
    /\ \E k \in 1..Len(effects), ok \in BOOLEAN :
           /\ effects[k].stage = "labels"
           /\ IF ok
              THEN /\ effects' = [effects EXCEPT ![k].stage = "build"]
                   /\ UNCHANGED <<previewUrl, liveUrls>>
              ELSE Caught(k)
    /\ UNCHANGED <<inputs, mounted>>
    /\ PreviewOthersUnchanged

\* buildPdfBytes settles (104-111): lines 112-117, or catch
BuildSettles ==
    /\ \E k \in 1..Len(effects), ok \in BOOLEAN :
           /\ effects[k].stage = "build"
           /\ IF ~ok THEN Caught(k)
              ELSE IF ~IsActive(effects[k])
              THEN /\ effects' = [effects EXCEPT ![k].stage = "returned", ![k].outcome = "dropped"]
                   /\ UNCHANGED <<previewUrl, liveUrls>>
              ELSE /\ effects' = [effects EXCEPT ![k].stage = "returned", ![k].outcome = "blob"]
                   /\ previewUrl' = BlobUrl(k, effects[k].inputs)
                   /\ liveUrls' = (liveUrls \ {previewUrl}) \cup {BlobUrl(k, effects[k].inputs)}
    /\ UNCHANGED <<inputs, mounted>>
    /\ PreviewOthersUnchanged

SpecPreview ==
    PreviewInit /\ [][ChangeInputs \/ Unmount \/ TimerFires \/ LabelsSettle \/ BuildSettles]_vars

(***************************************************************************)
(* Properties of the numbering normalizer.                                 *)
(***************************************************************************)
EmittedLevels == [i \in 1..Len(emitted) |-> emitted[i].level]

\* the characters of s before its first whitespace
RECURSIVE UpToSpace(_)
UpToSpace(s) ==
    IF s = <<>> \/ IsSpace(Head(s)) THEN <<>> ELSE <<Head(s)>> \o UpToSpace(Tail(s))

\* the number an emitted heading text starts with
EmittedPrefixes == [i \in 1..Len(emitted) |-> UpToSpace(emitted[i].text)]

ScenarioLevels == <<1, 2, 2, 1, 3>>

\* C1 (as claimed): headings of levels [1,2,2,1,3] fed to a fresh normalizer
\* are numbered 1, 1.1, 1.2, 2, 2.1.
C1_ScenarioAsClaimed ==
    EmittedLevels = ScenarioLevels =>
        EmittedPrefixes = << <<"1">>, <<"1", ".", "1">>, <<"1", ".", "2">>,
                             <<"2">>, <<"2", ".", "1">> >>

\* C1 (amended): headings of levels [1,2,2,1,3] fed to a fresh normalizer are
\* numbered 1, 1.1, 1.2, 2, 2.1.1: a heading of level L always gets a number
\* of exactly L segments, so the level-3 heading after "2" is "2.1.1"; and the
\* counter stack left by a heading of level L has exactly L entries (the
\* deeper counters are dropped).
C1_Scenario ==
    /\ EmittedLevels = ScenarioLevels =>
           EmittedPrefixes = << <<"1">>, <<"1", ".", "1">>, <<"1", ".", "2">>,
                                <<"2">>, <<"2", ".", "1", ".", "1">> >>
    /\ \A i \in 1..Len(emitted) : Len(emitted[i].numbers) = emitted[i].level
    /\ (last.called /\ last.isHeading) => Len(currentNumbers) = last.level

C1_Witness == EmittedLevels = ScenarioLevels

\* lexicographic order on number paths, a proper prefix being smaller
RECURSIVE LexLess(_, _)
LexLess(a, b) ==
    IF b = <<>> THEN FALSE
    ELSE IF a = <<>> THEN TRUE
    ELSE IF a[1] # b[1] THEN a[1] < b[1]
    ELSE LexLess(Tail(a), Tail(b))

\* C2: the number path emitted for a heading is lexicographically strictly
\* greater than the path emitted for every earlier heading of the same
\* normalizer instance (no counter is reset or lowered without a shallower
\* heading in between, no two headings get the same number).
C2_NumbersStrictlyIncrease ==
    \A i, j \in 1..Len(emitted) :
        i < j => LexLess(emitted[i].numbers, emitted[j].numbers)

\* the input line as the author wrote it, split at its first whitespace:
\* the numeric path without a trailing period, and the title
AuthorPrefix(text) ==
    LET head == UpToSpace(Trim(text))
    IN  IF head # <<>> /\ head[Len(head)] = "." THEN SubSeq(head, 1, Len(head) - 1) ELSE head

AuthorTitle(text) ==
    LET t == Trim(text)
    IN  TrimStart(SubSeq(t, Len(UpToSpace(t)) + 1, Len(t)))

AlreadyCorrect ==
    /\ last.called
    /\ last.isHeading
    /\ AuthorPrefix(last.input) = JoinDot(currentNumbers)

\* C9 (as claimed): a heading line whose author-written number equals the
\* number the normalizer assigns is emitted character for character.
C9_VerbatimAsClaimed == AlreadyCorrect => last.text = last.input

\* C9 (amended): a heading line whose author-written number equals the number
\* the normalizer assigns is emitted as that number, one space and the title:
\* the optional period after the number, extra whitespace between number and
\* title and surrounding whitespace are not kept ("1. a" is emitted as
\* "1 a"); a line written as number, one space, title is emitted verbatim.
C9_VerbatimUpToSeparator ==
    AlreadyCorrect =>
        /\ last.text = AuthorPrefix(last.input) \o <<" ">> \o AuthorTitle(last.input)
        /\ last.input \in CanonicalLines => last.text = last.input
        /\ last.input = <<"1", ".", " ", "a">> => last.text = <<"1", " ", "a">>

C9_Witness ==
    /\ AlreadyCorrect
    /\ last.input = <<"1", ".", " ", "a">>
    /\ last.text = <<"1", " ", "a">>

(***************************************************************************)
(* Properties of wrapRuns and drawParagraphBlock.                          *)
(***************************************************************************)
Wrapped == paraPc \in {"draw", "done"}

LineWidth(line) == LineWidthOf(line, FontSizeOf(block), block.isHeading)

\* the tokens of the paragraph with their measured widths
BlockTokens ==
    UNION { { [text |-> tk,
               width |-> widthOfTextAtSize(pickFont(block.runs[r], block.isHeading), tk,
                                           FontSizeOf(block))] :
                  tk \in { SplitOnSpaces(block.runs[r].text)[k] :
                               k \in 1..Len(SplitOnSpaces(block.runs[r].text)) } \ {<<>>} } :
            r \in 1..Len(block.runs) }

\* the paragraph has a token that is wider than the box on its own
HasOversizeToken == \E tk \in BlockTokens : tk.width > box.width

\* C3 (as claimed): every line wrapRuns returns has a total measured width,
\* whitespace segments included, of at most maxWidth, unless it holds
\* characters of a token that is itself wider than maxWidth.
C3_LinesFitAsClaimed ==
    Wrapped =>
        \A i \in 1..Len(lines) : LineWidth(lines[i]) <= box.width \/ HasOversizeToken

\* the line without the whitespace segments at its end
RECURSIVE DropTrailingSpace(_)
DropTrailingSpace(line) ==
    IF line # <<>> /\ IsSpaceToken(line[Len(line)].text)
    THEN DropTrailingSpace(SubSeq(line, 1, Len(line) - 1))
    ELSE line

\* the line is one character that is wider than maxWidth on its own (the
\* character packing of a token), possibly followed by whitespace
SingleWideChar(line) ==
    LET body == DropTrailingSpace(line)
    IN  /\ Len(body) = 1
        /\ Len(body[1].text) = 1
        /\ LineWidth(body) > box.width

\* C3 (amended): every line wrapRuns returns has a measured width, up to and
\* including its last non-whitespace segment, of at most maxWidth; whitespace
\* at the end of a line is kept on the line and may hang over maxWidth. The
\* only exception is a line whose text is a single character that is wider
\* than maxWidth on its own (from the character packing of a token).
C3_LinesFitUpToTrailingSpace ==
    Wrapped =>
        \A i \in 1..Len(lines) :
            LineWidth(DropTrailingSpace(lines[i])) <= box.width \/ SingleWideChar(lines[i])

\* a line with hanging whitespace, in a paragraph without any oversize token
C3_Witness ==
    /\ Wrapped
    /\ ~HasOversizeToken
    /\ Len(lines) >= 2
    /\ \E i \in 1..Len(lines) :
           /\ LineWidth(lines[i]) > box.width
           /\ LineWidth(DropTrailingSpace(lines[i])) <= box.width

\* the characters of a list of runs or segments, each with its flags
RECURSIVE StyledChars(_)
StyledChars(runs) ==
    IF runs = <<>> THEN <<>>
    ELSE [k \in 1..Len(Head(runs).text) |->
             [c |-> Head(runs).text[k], bold |-> Head(runs).bold,
              italic |-> Head(runs).italic, underline |-> Head(runs).underline]]
         \o StyledChars(Tail(runs))

RECURSIVE ConcatLines(_)
ConcatLines(ls) == IF ls = <<>> THEN <<>> ELSE Head(ls) \o ConcatLines(Tail(ls))

\* C4: concatenating the segments of all lines wrapRuns returns, in order,
\* gives back every character of the input runs in the original order, each
\* with the bold/italic/underline flags of its run; no segment is empty
\* except the single placeholder segment of an empty paragraph.
C4_WrapKeepsText ==
    Wrapped =>
        /\ StyledChars(ConcatLines(lines)) = StyledChars(block.runs)
        /\ Len(lines) >= 1
        /\ \A i \in 1..Len(lines) : \A k \in 1..Len(lines[i]) :
               lines[i][k].text = <<>> => (lines = << <<EmptySegment>> >>)

\* two runs of different flags, a token wider than maxWidth packed over lines
C4_Witness ==
    /\ Wrapped
    /\ HasOversizeToken
    /\ Len(block.runs) = 2
    /\ Len(lines) >= 3
    /\ \E i \in 1..Len(lines) : \E k \in 1..Len(lines[i]) : IsSpaceToken(lines[i][k].text)

\* the indices of the non-whitespace segments of a drawn line
WordSegments(d) == { k \in 1..Len(d.segments) : ~AllSpace(d.segments[k].text) }

\* the words of a drawn line: maximal groups of adjacent non-whitespace segments
WordCount(d) ==
    Cardinality({ k \in WordSegments(d) : k = 1 \/ (k - 1) \notin WordSegments(d) })

Min(S) == CHOOSE x \in S : \A y \in S : x <= y
Max(S) == CHOOSE x \in S : \A y \in S : x >= y

\* every segment starts where the previous one ends
NaturalSpacing(d) ==
    \A k \in 1..(Len(d.segments) - 1) :
        d.segments[k + 1].xN = d.segments[k].xN + d.den * d.segments[k].width

\* the first word starts at the left edge of the box and the last word ends
\* at its right edge, i.e. the gaps between the words add up to box.width
\* minus the widths of the words
FlushBothEdges(d) ==
    LET first == d.segments[Min(WordSegments(d))]
        final == d.segments[Max(WordSegments(d))]
    IN  (final.xN + d.den * final.width) - first.xN = d.den * box.width

\* C10: in a justified paragraph every line but the last that has two or more
\* words is drawn with the gaps between its words adding up to box.width minus
\* the widths of the words (the last word ends flush at the right edge), and
\* the last line is drawn with natural spacing.
C10_JustifiedLinesFlush ==
    block.align = "justify" =>
        \A i \in 1..Len(drawnLines) :
            /\ (~drawnLines[i].isLastLine /\ WordCount(drawnLines[i]) >= 2)
                   => FlushBothEdges(drawnLines[i])
            /\ drawnLines[i].isLastLine => NaturalSpacing(drawnLines[i])

(***************************************************************************)
(* Properties of pagination and of the page-number labels.                 *)
(***************************************************************************)
BodyTop == Quarters(layout.body.y)

BodyBottom == Quarters(layout.body.y + layout.body.height)

\* the block did not fit below the cursor it met
Overflowed(p) == p.cursorBefore + p.height > BodyBottom

\* C5: renderRichContent paginates greedily.  Each flattened block is measured
\* and drawn once, in document order; when the cursor plus the measured height
\* passes the bottom of the body exactly one content page is added and the
\* block is drawn from the top of the body of that page, otherwise it is drawn
\* on the current page at the cursor.  So pages never decrease from block to
\* block, a block lies on one page, and a block whose measured height is at
\* most body.height starts and ends inside the body region.
C5_GreedyPagination ==
    /\ Len(placed) <= Len(blocks)
    /\ pc \in {"labels", "done"} => Len(placed) = Len(blocks)
    /\ \A k \in 1..Len(placed) :
           LET p == placed[k]
           IN  /\ p.height = measureBlockHeight(blocks[k], renderContext(layout))
               /\ Overflowed(p) => (p.page = p.pagesBefore + 1 /\ p.top = BodyTop)
               /\ ~Overflowed(p) => (p.page = p.pagesBefore /\ p.top = p.cursorBefore)
               /\ p.top <= p.bottom
               /\ p.height <= Quarters(layout.body.height)
                      => (BodyTop <= p.top /\ p.bottom <= BodyBottom)
               /\ k > 1 => (placed[k - 1].page = p.pagesBefore /\ placed[k - 1].page <= p.page)
               /\ outPages[p.page].content

C5_Witness ==
    /\ pc = "done"
    /\ Len(placed) = MaxNodes
    /\ ~Overflowed(placed[1])
    /\ \E k \in 2..Len(placed) :
           /\ Overflowed(placed[k])
           /\ placed[k].height <= Quarters(layout.body.height)
           /\ placed[k].bottom > placed[k].top

LabelAt(i, n) ==
    <<"P", "a", "g", "e", " ">> \o ToDigits(i) \o <<" ", "o", "f", " ">> \o ToDigits(n)

\* C6: the page-number labels are written after every block has been placed.
\* A label is on a page only once pagination is over, a label at position i
\* of the N pages reads "Page i of N", and in the finished document every
\* page from the second to the last carries its label while page 1 has none.
C6_LabelsAfterPagination ==
    /\ \A i \in 1..Len(outPages) :
           outPages[i].label # NoLabel =>
               /\ pc \in {"labels", "done"}
               /\ Len(placed) = Len(blocks)
               /\ i >= 2
               /\ outPages[i].label = LabelAt(i, Len(outPages))
    /\ pc = "done" => \A i \in 2..Len(outPages) : outPages[i].label # NoLabel

C6_Witness ==
    /\ pc = "done"
    /\ Len(outPages) = 3
    /\ outPages[1].label = NoLabel
    /\ outPages[2].label = <<"P", "a", "g", "e", " ", "2", " ", "o", "f", " ", "3">>
    /\ outPages[3].label = <<"P", "a", "g", "e", " ", "3", " ", "o", "f", " ", "3">>

\* the document is one paragraph whose wrapped lines take more than the
\* height of the body, and its render has finished
OversizeParagraphOnly ==
    /\ pc = "done"
    /\ Len(doc) = 1
    /\ doc[1].type = "paragraph"
    /\ Len(blocks) = 1
    /\ Len(wrapRuns(blocks[1].runs, layout.body.width,
                    fontSize(blocks[1], renderContext(layout)), blocks[1].isHeading))
           * lineHeight(blocks[1], renderContext(layout)) > layout.body.height

\* C7: a document of a single paragraph whose wrapped line count times line
\* height exceeds the height of the body renders to at least 2 pages, the 2nd
\* page being labelled "Page 2 of 2".
C7_OverflowScenario ==
    OversizeParagraphOnly =>
        /\ Len(outPages) >= 2
        /\ outPages[2].label = <<"P", "a", "g", "e", " ", "2", " ", "o", "f", " ", "2">>

\* the height of the content: every block with the gap that follows it
ContentHeight ==
    Sum([k \in 1..Len(blocks) |->
            MathMax(measureBlockHeight(blocks[k], renderContext(layout)),
                    drawBlock(blocks[k], 0, renderContext(layout)).cursorY)])

ContentFits == pc = "done" /\ ContentHeight <= Quarters(layout.body.height)

ScenarioDoc == <<HeadingNode, HelloNode, TableNode>>

ContentHeightOf(cell) ==
    Sum([p \in 1..Len(cell.content) |->
            ParagraphHeight(cell.content[p],
                            columnWidth(table, renderContext(layout)) * cell.colspan - 12,
                            renderContext(layout))])

RowFloor == Quarters(layout.body.lineHeight + 6)

\* C11: for a cell of rowspan 2 and wrapped content height H that starts in
\* row R and spans the rows R and R+1 of the table, the heights
\* computeRowHeights returns satisfy height[R] + height[R+1] >= H, and
\* every row of every table is at least bodyLineHeight + 6 high.
C11_RowHeightsCoverSpanningCell ==
    returnedHeights # <<>> =>
        /\ Len(returnedHeights) >= Len(table.rows)
        /\ \A r \in 1..Len(table.rows) : returnedHeights[r] >= RowFloor
        /\ \A rc \in CellsOf(table) :
               LET cell == table.rows[rc[1]].cells[rc[2]]
               IN  (cell.rowspan = 2 /\ rc[1] + 1 <= Len(table.rows))
                       => returnedHeights[rc[1]] + returnedHeights[rc[1] + 1] >= ContentHeightOf(cell)

\* a cell of rowspan 2 whose content is taller than two rows raised by
\* one-line cells
C11_Witness ==
    /\ returnedHeights # <<>>
    /\ \E rc \in CellsOf(table) :
           LET cell == table.rows[rc[1]].cells[rc[2]]
           IN  /\ cell.rowspan = 2
               /\ rc[1] + 1 <= Len(table.rows)
               /\ ContentHeightOf(cell) > 2 * (RowFloor + Quarters(12))
               /\ returnedHeights[rc[1]] + returnedHeights[rc[1] + 1] >= ContentHeightOf(cell)

SplicedInto == applyTemplatePlaceholders(docx.documentXml, docTitle, docSubtitle)

\* the opening tag of a paragraph, written <w:p> or <w:p with attributes
OpeningTag(s, i) == At(s, i, <<"<", "w", ":", "p", ">">>) \/ At(s, i, <<"<", "w", ":", "p", " ">>)

\* where the paragraph that encloses the content marker opens: the last
\* opening tag before the marker that no </w:p> closes before the marker;
\* 0 when the marker is absent or no paragraph is open at the marker
EnclosingStart(s) ==
    LET at == indexOf(s, <<"{", "{", "c", "o", "n", "t", "e", "n", "t", "}", "}">>, 1)
        opens == { i \in 1..(at - 1) :
                      OpeningTag(s, i) /\ indexOf(SubSeq(s, i, at - 1), <<"<", "/", "w", ":", "p", ">">>, 1) = 0 }
    IN  IF opens = {} THEN 0 ELSE CHOOSE i \in opens : \A j \in opens : i >= j

\* where the paragraph that encloses the content marker closes, 0 if nowhere
EnclosingEnd(s) ==
    IF EnclosingStart(s) = 0 THEN 0
    ELSE indexOf(s, <<"<", "/", "w", ":", "p", ">">>, indexOf(s, <<"{", "{", "c", "o", "n", "t", "e", "n", "t", "}", "}">>, 1))

\* C13 as stated: when the content marker lies in a paragraph, opened by
\* <w:p> or by <w:p with attributes, the export replaces exactly that
\* paragraph, from its opening tag to its </w:p>, by the generated blocks,
\* and keeps all markup before and after it.
C13_ReplacesExactlyTheContentParagraph ==
    (entry = "exportToWord" /\ wordPc \in {"generated", "done", "failed"}
        /\ docx.ok /\ EnclosingEnd(SplicedInto) # 0) =>
        /\ wordPc # "failed"
        /\ updatedXml = SubSeq(SplicedInto, 1, EnclosingStart(SplicedInto) - 1)
                           \o Join(wordBlocks)
                           \o Drop(SplicedInto, EnclosingEnd(SplicedInto) + 5)

\* C14 as stated: when the content marker of the template is absent, has no
\* enclosing paragraph start, or no closing </w:p> after it, the rich Word
\* export rejects with an error, builds no package and saves nothing.
C14_MarkerOutsideParagraphAborts ==
    (entry = "exportToWord" /\ wordPc \in {"generated", "done", "failed"}
        /\ docx.ok /\ EnclosingEnd(SplicedInto) = 0) =>
        /\ wordPc = "failed"
        /\ error \in {"Placeholder not found in template.",
                      "Placeholder is not inside a paragraph."}
        /\ saved.by = "nothing"

\* the template has its title and subtitle markers in one run each, or
\* split over two runs
HasMarkers(kind) == At(docx.documentXml, 1, MarkerParagraphs[kind])

\* C15 as stated: once applyTemplatePlaceholders has run on the document,
\* every title and subtitle marker, written in one run or split over two,
\* has been replaced by the escaped value, for every title and subtitle,
\* the empty subtitle included, and no marker text is left.
C15_MarkersReplacedByEscapedValues ==
    (entry = "exportToWord" /\ wordPc = "blocks"
        /\ (HasMarkers("whole") \/ HasMarkers("split"))) =>
        /\ indexOf(updatedXml, <<"{", "{", "<", "/", "w", ":", "t", ">">>, 1) = 0
        /\ indexOf(updatedXml, <<"t", "i", "t", "l", "e", "}", "}">>, 1) = 0
        /\ At(updatedXml, 1, <<"<", "w", ":", "p", ">", "<", "w", ":", "t", ">">> \o xmlEscape(docTitle) \o <<"<", "/", "w", ":", "t", ">">>)
        /\ indexOf(updatedXml, <<"<", "w", ":", "t", ">">> \o xmlEscape(docSubtitle) \o <<"<", "/", "w", ":", "t", ">">>, 1) # 0

\* the images among the first n nodes that the browser could decode
DecodedImages(n) ==
    { i \in 1..n : doc[i].type = "image" /\ parseDataUrl(doc[i].src)
                      /\ getImageSize(doc[i].src).width > 0 }

\* the nodes among the first n that are paragraphs with text
TextParagraphs(n) ==
    { i \in 1..n : doc[i].type = "paragraph" /\ Trim(fullText(doc[i].runs)) # <<>> }

\* C18 as stated, for the Word engine: an image whose size is found to be
\* 0 x 0 adds no image part, no relationship and no drawing, and the blocks
\* after it are still built.
C18_UndecodableImageAddsNothing ==
    (entry = "exportToWord" /\ wordPc = "blocks" /\ nodeIndex <= Len(doc)
        /\ wordBlocks # <<emptyParagraphXml>>) =>
        /\ Cardinality(richCtx.media \ docx.images) = Cardinality(DecodedImages(nodeIndex))
        /\ Len(richCtx.rels) - Len(docx.rels) = Cardinality(DecodedImages(nodeIndex))
        /\ Len(wordBlocks) = Cardinality(DecodedImages(nodeIndex))
                                + Cardinality(TextParagraphs(nodeIndex))

\* the inverse of the five replacements of xmlEscape
Unescape(e) ==
    replaceAll(replaceAll(replaceAll(replaceAll(replaceAll(
        e, <<"&", "a", "p", "o", "s", ";">>, <<"'">>), <<"&", "q", "u", "o", "t", ";">>, <<"\"">>), <<"&", "g", "t", ";">>, <<">">>), <<"&", "l", "t", ";">>, <<"<">>), <<"&", "a", "m", "p", ";">>, <<"&">>)

\* e is what one pass of escaping makes of the text t: no stripped control
\* character and none of < > " ' in it, & only at the start of an entity,
\* and the characters of t, the stripped ones apart, in their order
EscapedOnce(t, e) ==
    /\ \A i \in 1..Len(e) : e[i] \notin {"\f", "<", ">", "\"", "'"}
    /\ \A i \in 1..Len(e) :
           e[i] = "&" => \E entity \in {<<"&", "a", "m", "p", ";">>, <<"&", "l", "t", ";">>, <<"&", "g", "t", ";">>, <<"&", "q", "u", "o", "t", ";">>, <<"&", "a", "p", "o", "s", ";">>} :
                             At(e, i, entity)
    /\ Unescape(e) = SelectSeq(t, LAMBDA c : c # "\f")

\* the text of the run of the paragraph a text node was turned into
RunText(paragraph) == SubSeq(paragraph, 16, Len(paragraph) - 18)

RECURSIVE NumbersAfter(_)
NumbersAfter(levels) ==
    IF levels = <<>> THEN <<>>
    ELSE NextNumbers(NumbersAfter(SubSeq(levels, 1, Len(levels) - 1)), levels[Len(levels)])

\* the levels of the numbered headings among the first n nodes
RECURSIVE HeadingLevels(_)
HeadingLevels(n) ==
    IF n = 0 THEN <<>>
    ELSE IF doc[n].type = "paragraph" /\ detectNumberedHeading(fullText(doc[n].runs)).ok
         THEN Append(HeadingLevels(n - 1), detectNumberedHeading(fullText(doc[n].runs)).level)
         ELSE HeadingLevels(n - 1)

\* C20 as stated: heading by heading, the number prefix applyHeadingNumbering
\* makes from a fresh six-entry counter array is the prefix a fresh
\* createNumberingNormalizer makes for the same sequence of levels.
C20_WordNumbersLikeTheNormalizer ==
    (entry = "exportToWord" /\ wordPc = "blocks" /\ nodeIndex >= 1
        /\ HeadingLevels(nodeIndex) # HeadingLevels(nodeIndex - 1)) =>
        SubSeq(headingNumbers, 1, Len(NumbersAfter(HeadingLevels(nodeIndex))))
            = NumbersAfter(HeadingLevels(nodeIndex))

(***************************************************************************)
(* Properties of renders in flight at once.                                *)
(***************************************************************************)
\* what an engine yields for the nodes when it renders them alone
RECURSIVE Alone(_, _)
Alone(engine, nodes) ==
    IF nodes = <<>>
    THEN [out |-> <<>>, numbers |-> FreshRenderState(engine).numbers,
          ctx |-> FreshRenderState(engine).ctx]
    ELSE LET before == Alone(engine, SubSeq(nodes, 1, Len(nodes) - 1))
             step == RenderedNode(engine, nodes[Len(nodes)], before.numbers, before.ctx)
         IN  [out |-> before.out \o step.blocks, numbers |-> step.counters,
              ctx |-> step.ctx]

C17_FallbackLabelsAreLocal ==
    (/\ labels.handed # "nothing"
     /\ ~BlankContent(request.lines)
     /\ \/ request.service \in {"no key", "throws"}
        \/ ~request.answer.parsed
        \/ Len(request.answer.labels) # Len(request.lines)) =>
        /\ labels.handed = "labels"
        /\ labels.labels = localClassify(request.lines)
        /\ Len(labels.labels) = Len(request.lines)
        /\ \A i \in 1..Len(request.lines) :
               labels.labels[i] = "blank" <=> Trim(request.lines[i]) = <<>>

(***************************************************************************)
(* Properties of the id allocation of the Word engine.                     *)
(***************************************************************************)
\* the digits that follow the first occurrence of the attribute in a block
DigitsAfter(xml, attr) ==
    LET i == indexOf(xml, attr, 1)
    IN  IF i = 0 THEN <<>>
        ELSE SubSeq(xml, i + Len(attr), DigitsEnd(xml, i + Len(attr)) - 1)

\* the id of the wp:docPr of a block, and the rId its blip embeds
DocPrOf(blockXml) == DigitsAfter(blockXml, <<"<", "w", "p", ":", "d", "o", "c", "P", "r", " ", "i", "d", "=", "\"">>)

EmbedOf(blockXml) == DigitsAfter(blockXml, <<"r", ":", "e", "m", "b", "e", "d", "=", "\"", "r", "I", "d">>)

\* the blocks with a drawing, in document order
ImageBlocks == SelectSeq(wordBlocks, LAMBDA b : DocPrOf(b) # <<>>)

\* the Relationship elements added to the relationships part
AddedRels == SubSeq(richCtx.rels, Len(docx.rels) + 1, Len(richCtx.rels))

\* C21: in a Word export, after any number of image insertions, the media
\* file names, the relationship ids and the wp:docPr ids are pairwise
\* distinct, those of the template included; every inserted image has
\* exactly one relationship, whose target is its own media file; and the
\* three counters only increase, each staying above every id in use.
C21_IdsNeverCollide ==
    (entry = "exportToWord" /\ wordPc \in {"blocks", "generated", "done"}) =>
        LET rels == richCtx.rels
            imgs == ImageBlocks
        IN  /\ \A i, j \in 1..Len(rels) : i # j => rels[i].id # rels[j].id
            /\ Cardinality(richCtx.media) = Cardinality(docx.images) + Len(AddedRels)
            /\ Len(imgs) = Len(AddedRels)
            /\ \A i, j \in 1..Len(imgs) : i # j => DocPrOf(imgs[i]) # DocPrOf(imgs[j])
            /\ \A i \in 1..Len(imgs) : \A d \in docx.docPrIds : DocPrOf(imgs[i]) # ToDigits(d)
            /\ \A k \in 1..Len(imgs) :
                   /\ AddedRels[k].target \in richCtx.media \ docx.images
                   /\ EmbedOf(imgs[k]) = ToDigits(AddedRels[k].id)
                   /\ Cardinality({ i \in 1..Len(rels) : rels[i].id = AddedRels[k].id }) = 1
                   /\ Cardinality({ i \in 1..Len(rels) : rels[i].target = AddedRels[k].target }) = 1
            /\ \A k \in 1..(Len(imgs) - 1) :
                   /\ AddedRels[k].id < AddedRels[k + 1].id
                   /\ AddedRels[k].target < AddedRels[k + 1].target
            /\ \A i \in 1..Len(rels) : rels[i].id < richCtx.nextRelId
            /\ \A m \in richCtx.media : m < richCtx.nextImageId
            /\ \A d \in docx.docPrIds : d < richCtx.nextDocPrId
            /\ \A i \in 1..Len(imgs) : DocPrOf(imgs[i]) # ToDigits(richCtx.nextDocPrId)

\* two images were inserted into a template that has an image, a
\* relationship to it and a wp:docPr of its own
C21_Witness ==
    /\ entry = "exportToWord" /\ wordPc = "generated"
    /\ Len(ImageBlocks) = 2
    /\ docx.images # {} /\ docx.docPrIds # {} /\ Len(docx.rels) = 2

(***************************************************************************)
(* The reference rule of the numbering normalizer.                         *)
(***************************************************************************)
\* dot-separated integers
IsNumericPath(t) ==
    /\ t # <<>>
    /\ IsDigit(t[1]) /\ IsDigit(t[Len(t)])
    /\ \A i \in 1..Len(t) : IsDigit(t[i]) \/ t[i] = "."
    /\ \A i \in 1..(Len(t) - 1) : ~(t[i] = "." /\ t[i + 1] = ".")

\* the ways to read a line as numeric path, optional period, whitespace and
\* title: the path ends at p, the title starts after w
PathReadings(line) ==
    { pw \in (1..Len(line)) \X (1..Len(line)) :
        /\ pw[1] < pw[2]
        /\ IsNumericPath(SubSeq(line, 1, pw[1]))
        /\ \E ws \in (pw[1] + 1)..pw[2] :
              /\ ws = pw[1] + 1 \/ (ws = pw[1] + 2 /\ line[pw[1] + 1] = ".")
              /\ \A i \in ws..pw[2] : IsSpace(line[i])
        /\ pw[2] = Len(line) \/ ~IsSpace(line[pw[2] + 1]) }

\* the stack after a heading of level L
ReferenceStack(stack, L) ==
    IF L = 1 THEN << (IF stack = <<>> THEN 0 ELSE stack[1]) + 1 >>
    ELSE LET padded == [i \in 1..(IF Len(stack) < L - 1 THEN L - 1 ELSE Len(stack)) |->
                            IF i <= Len(stack) THEN stack[i] ELSE 1]
         IN  [i \in 1..L |->
                 IF i < L THEN padded[i]
                 ELSE IF Len(padded) = L THEN padded[L] + 1 ELSE 1]

\* what the rule returns for a line, read as it stands, and what it leaves
\* in the stack
ReferenceRule(stack, line, read) ==
    IF PathReadings(read) = {}
    THEN [numbers |-> stack, text |-> line, isHeading |-> FALSE]
    ELSE LET pw == CHOOSE x \in PathReadings(read) : TRUE
             L == Cardinality({ i \in 1..pw[1] : read[i] = "." }) + 1
         IN  [numbers |-> ReferenceStack(stack, L),
              text |-> JoinDot(ReferenceStack(stack, L)) \o <<" ">>
                          \o SubSeq(read, pw[2] + 1, Len(read)),
              isHeading |-> TRUE]

\* the call of the normalizer that a step makes returns what the rule returns
CallFollows(rule) ==
    /\ currentNumbers' = rule.numbers
    /\ last'.text = rule.text
    /\ last'.isHeading = rule.isHeading

\* C22 (as claimed): for every input line and every reachable counter stack
\* the normalizer returns what the reference rule returns for the line: a
\* line that does not begin with a numeric path, optional period, whitespace
\* and title is returned unchanged, is no heading and leaves the stack
\* unchanged; a line that does is numbered by the rule of the stack and
\* returned as the counters, one space and the title.
C22_EqualsReferenceRuleAsClaimed ==
    [][CallFollows(ReferenceRule(currentNumbers, last'.input, last'.input))]_vars

\* C22 (amended): the normalizer returns what the reference rule returns for
\* the line with its surrounding whitespace removed: a line whose numeric
\* path comes after leading whitespace is a heading too, and trailing
\* whitespace is no part of the title; a line that is not matched is
\* returned as it was given, whitespace included.
C22_EqualsReferenceRuleOfTrimmedLine ==
    [][CallFollows(ReferenceRule(currentNumbers, last'.input, Trim(last'.input)))]_vars

\* a heading of level 2 was numbered 1.1 on a stack that was three deep, and
\* the last line, whose path follows a space, became a heading
C22_Witness ==
    /\ last.called /\ last.isHeading
    /\ last.input = <<>> \o <<" ">> \o <<"1", ".", "1", " ", "a">> \o <<" ">>
    /\ \E i \in 1..(Len(emitted) - 1) :
          /\ emitted[i].level = 3
          /\ emitted[i + 1].level = 2
          /\ emitted[i + 1].numbers[2] = 1

(***************************************************************************)
(* Properties of the two conversions of one document.                      *)
(***************************************************************************)
\* the paragraphs at the leaves of a node, in encounter order
RECURSIVE LeafParagraphs(_)
LeafParagraphs(node) ==
    IF node.type = "paragraph" THEN <<node>>
    ELSE Join([i \in 1..Len(node.content) |-> LeafParagraphs(node.content[i])])

\* a number, a period and a space
IsOrderedMarker(text) ==
    /\ Len(text) >= 3
    /\ IsDigit(text[1])
    /\ DigitsEnd(text, 1) = Len(text) - 1
    /\ text[Len(text) - 1] = "." /\ text[Len(text)] = " "

\* the text of the first run of a paragraph of the Word engine
FirstRunText(xml) ==
    LET from == indexOf(xml, <<"<", "w", ":", "t", ">">>, 1)
        to == indexOf(xml, <<"<", "/", "w", ":", "t", ">">>, 1)
    IN  IF from = 0 THEN <<>> ELSE SubSeq(xml, from + 5, to - 1)

\* the markers of the ordered-list paragraphs each engine has emitted
PdfMarkers ==
    LET marked == SelectSeq(blocks, LAMBDA b : b.type = "paragraph"
                                                  /\ IsOrderedMarker(b.runs[1].text))
    IN  [k \in 1..Len(marked) |-> marked[k].runs[1].text]

WordMarkers ==
    LET marked == SelectSeq(wordBlocks, LAMBDA b : IsOrderedMarker(FirstRunText(b)))
    IN  [k \in 1..Len(marked) |-> FirstRunText(marked[k])]

\* markers that restart at 1 for every top-level ordered list and count its
\* emitted leaf paragraphs; the Word engine emits those with text only
MarkersFromOne(withTextOnly) ==
    Join([i \in 1..Len(doc) |->
        IF doc[i].type # "orderedList" THEN <<>>
        ELSE [k \in 1..Len(SelectSeq(LeafParagraphs(doc[i]),
                                      LAMBDA p : ~withTextOnly \/ Trim(fullText(p.runs)) # <<>>)) |->
                 ToDigits(k) \o <<".", " ">>]])

\* C23: the ordered-list markers restart at "1. " for every top-level
\* ordered list and increase by one per emitted leaf paragraph, those of
\* nested lists included, in the PDF flattening and in the Word block
\* generation alike, whatever precedes the list.
C23_OrderedMarkersRestart ==
    /\ pc = "flattened" => PdfMarkers = MarkersFromOne(FALSE)
    /\ wordPc = "built" =>
           WordMarkers = MarkersFromOne(TRUE)

(***************************************************************************)
(* Properties of measuring and drawing.                                    *)
(***************************************************************************)
\* the paragraphs of the cells of a table block, each with the width its
\* cell leaves to the text
CellParagraphs(b, ctx) ==
    UNION { { [paragraph |-> b.rows[rc[1]].cells[rc[2]].content[p],
               width |-> columnWidth(b, ctx) * b.rows[rc[1]].cells[rc[2]].colspan - 12] :
                  p \in 1..Len(b.rows[rc[1]].cells[rc[2]].content) } : rc \in CellsOf(b) }

Pieces(xml, open, close) ==
    LET starts == { i \in 1..Len(xml) : At(xml, i, open) }
    IN  [k \in 1..Cardinality(starts) |->
            LET from == CHOOSE i \in starts : Cardinality({ j \in starts : j < i }) = k - 1
            IN  SubSeq(xml, from, indexOf(xml, close, from) + Len(close) - 1)]

\* the column count of a table: the largest sum of colspans of a row
ColumnCount(node) ==
    Max({ Sum([c \in 1..Len(node.rows[r]) |-> node.rows[r][c].colspan]) :
              r \in 1..Len(node.rows) })

\* the tables of the document and the tables the Word engine has emitted
TableNodes == SelectSeq(doc, LAMBDA n : n.type = "table")

WordTables == SelectSeq(wordBlocks, LAMBDA b : At(b, 1, <<"<", "w", ":", "t", "b", "l", ">">>))

\* every source cell is one cell of its row, with a gridSpan if and only if
\* its colspan is above 1
CellsAsInSource(node, xml) ==
    LET rows == Pieces(xml, <<"<", "w", ":", "t", "r", ">">>, <<"<", "/", "w", ":", "t", "r", ">">>)
    IN  /\ Len(rows) = Len(node.rows)
        /\ \A r \in 1..Len(rows) :
              LET cells == Pieces(rows[r], <<"<", "w", ":", "t", "c", ">">>, <<"<", "/", "w", ":", "t", "c", ">">>)
              IN  /\ Len(cells) = Len(node.rows[r])
                  /\ \A c \in 1..Len(cells) :
                        IF node.rows[r][c].colspan > 1
                        THEN indexOf(cells[c], <<"<", "w", ":", "g", "r", "i", "d", "S", "p", "a", "n", " ", "w", ":", "v", "a", "l", "=", "\"">>
                                                  \o ToDigits(node.rows[r][c].colspan)
                                                  \o <<"\"", "/", ">">>, 1) # 0
                        ELSE indexOf(cells[c], <<"<", "w", ":", "g", "r", "i", "d", "S", "p", "a", "n">>, 1) = 0

\* C25: the column grid of a Word table has one gridCol per column of the
\* table's column count, the largest sum of colspans of a row; every cell
\* with a colspan above 1 carries a gridSpan of that value; and every source
\* cell is emitted as exactly one cell of its row.
C25_WordTableGrid ==
    wordPc = "built" =>
        /\ Len(WordTables) = Len(TableNodes)
        /\ \A t \in 1..Len(WordTables) :
              /\ Len(Pieces(WordTables[t], <<"<", "w", ":", "g", "r", "i", "d", "C", "o", "l", " ">>, <<"/", ">">>)) = ColumnCount(TableNodes[t])
              /\ CellsAsInSource(TableNodes[t], WordTables[t])

(***************************************************************************)
(* Properties of the title and subtitle of the Word export.                *)
(***************************************************************************)
\* the texts of the runs coloured 009690, as they read once unescaped
ColouredRunTexts(xml) ==
    LET open == <<"<", "w", ":", "r", ">", "<", "w", ":", "r", "P", "r", ">", "<", "w", ":", "c", "o", "l", "o", "r", " ", "w", ":", "v", "a", "l", "=", "\"", "0", "0", "9", "6", "9", "0", "\"", "/", ">", "<", "/", "w", ":", "r", "P", "r", ">", "<", "w", ":", "t", ">">>
        runs == Pieces(xml, open, <<"<", "/", "w", ":", "t", ">", "<", "/", "w", ":", "r", ">">>)
    IN  [k \in 1..Len(runs) |->
            Unescape(SubSeq(runs[k], Len(open) + 1, Len(runs[k]) - 12))]

\* the template has a run that ends the marker of the key
HasPlaceholderRun(key) == indexOf(docx.documentXml, key \o <<"}", "}", "<", "/", "w", ":", "t", ">">>, 1) # 0

\* C26: for the brand IHNA, whenever the template has a title or subtitle
\* placeholder run and the value is not empty, the document holds in its
\* place runs coloured 009690 with the value, broken so that no line is
\* longer than 42 (title) or 48 (subtitle) characters unless it is one word.
C26_PlaceholderRunsRewritten ==
    (entry = "exportToWord" /\ wordPc \in {"blocks", "generated", "done"}
        /\ docx.company = "IHNA") =>
        LET texts == ColouredRunTexts(updatedXml)
            titled == IF HasPlaceholderRun(<<"t", "i", "t", "l", "e">>) THEN 1 ELSE 0
            subtitled == IF HasPlaceholderRun(<<"s", "u", "b", "t", "i", "t", "l", "e">>) /\ docSubtitle # <<>> THEN 1 ELSE 0
        IN  /\ Len(texts) >= titled + subtitled
            /\ titled = 1 => At(texts[1], 1, wrapByLength(docTitle, 42)[1])
            /\ \A k \in 1..Len(texts) :
                  Len(texts[k]) <= 48 \/ \A i \in 1..Len(texts[k]) : ~IsSpace(texts[k][i])

(***************************************************************************)
(* Properties of the blocks of top-level paragraphs and headings.          *)
(***************************************************************************)
IsParagraphOrHeading(node) == node.type \in {"paragraph", "heading"}

\* the number of blocks the first k nodes yield when each paragraph and
\* heading yields one block and every other node what the engine makes of it
PdfBlocksDue(k) ==
    Len(Join([i \in 1..k |->
        IF IsParagraphOrHeading(doc[i]) THEN <<doc[i]>>
        ELSE tiptapToPdfBlocks(<<doc[i]>>, <<>>, "left")]))

WordBlocksDue(k) ==
    Len(Join([i \in 1..k |->
        IF IsParagraphOrHeading(doc[i]) THEN <<doc[i]>>
        ELSE OpenXmlNode(doc[i], <<0, 0, 0, 0, 0, 0>>, richCtx, NoOrderedList).step.blocks]))

\* C27: every top-level paragraph or heading, one without content included,
\* contributes exactly one block at its place in document order: the PDF
\* flattening has one paragraph block for it (a blank one for a node
\* without content), and the loop of the Word engine has added one
\* paragraph for each such node it has passed, so both engines give as many
\* paragraphs in the same order.
C27_OneBlockPerParagraph ==
    /\ pc = "flattened" =>
           /\ Len(blocks) = PdfBlocksDue(Len(doc))
           /\ \A i \in 1..Len(doc) :
                  IsParagraphOrHeading(doc[i]) =>
                      /\ blocks[PdfBlocksDue(i)].type = "paragraph"
                      /\ doc[i].runs = <<>> =>
                             blocks[PdfBlocksDue(i)] = BlankParagraph("left")
    /\ wordPc = "blocks" => Len(wordBlocks) = WordBlocksDue(nodeIndex)

(***************************************************************************)
(* Properties of the preview of TextEditor.                                *)
(***************************************************************************)
\* no run of the effect has a timer pending or a render in flight
Settled ==
    \A k \in 1..Len(effects) :
        effects[k].stage = "returned" \/ effects[k].timer = "cleared"

\* the preview is what the last run of the effect built from the inputs of
\* the last render, and none if these were blank or that render failed
ShowsLatest ==
    previewUrl = IF effects[Len(effects)].outcome = "blob"
                 THEN BlobUrl(Len(effects), inputs) ELSE NoPreview

\* a run whose timer was cleared never gets to updatePreview
ClearedTimerStartsNothing ==
    \A k \in 1..Len(effects) :
        effects[k].timer = "cleared" =>
            effects[k].stage = "debounce" /\ effects[k].outcome = "none"

\* a run superseded by a later one, or ended by the unmount, returns without
\* touching previewUrl or creating an object URL
SupersededLeavesPreview ==
    \A k \in 1..Len(effects) :
        (~effects[k].isActive /\ effects'[k] # effects[k]) =>
            (previewUrl' = previewUrl /\ liveUrls' = liveUrls)

\* C28: a run of the preview effect that was superseded by a change of the
\* title, subtitle, content, layout or template never updates the preview,
\* whether its render succeeds or fails and whenever it settles; a cleared
\* debounce timer never starts a render; and once every run has settled the
\* preview shown is the one built from the latest inputs.
C28_SupersededRendersAbandoned ==
    [][/\ SupersededLeavesPreview
       /\ ClearedTimerStartsNothing'
       /\ (mounted' /\ Settled') => ShowsLatest']_vars

\* two changes during a render: the first run's PDF was built after it was
\* superseded and was dropped, the second run's timer was cleared, and the
\* preview is the PDF the third run built
C28_Witness ==
    /\ mounted /\ Settled
    /\ Len(effects) = 3
    /\ effects[1].outcome = "dropped"
    /\ effects[2].timer = "cleared"
    /\ effects[3].outcome = "blob"
    /\ previewUrl = BlobUrl(3, inputs)

(***************************************************************************)
(* Properties of titles and subtitles that hold the text of a marker.      *)
(***************************************************************************)
\* the text with a parenthesis for every brace, so that it holds no marker
Neutral(text) ==
    [i \in 1..Len(text) |-> IF text[i] = "{" THEN "(" ELSE IF text[i] = "}" THEN ")"
                            ELSE text[i]]

\* the braces back in the place of the parentheses
Restored(xml) ==
    [i \in 1..Len(xml) |-> IF xml[i] = "(" THEN "{" ELSE IF xml[i] = ")" THEN "}"
                           ELSE xml[i]]

\* the document of the rich export for a title and a subtitle
RichDocument(t, st) ==
    replaceParagraphContainingPlaceholder(
        TitleRuns(applyTemplatePlaceholders(docx.documentXml, t, st), docx.company, t, st),
        <<"{", "{", "c", "o", "n", "t", "e", "n", "t", "}", "}">>, wordBlocks)

\* C29: the title and the subtitle are never read as markers: the rich Word
\* export of a title or subtitle that holds "{{subtitle}}" or "{{content}}"
\* ends as the export of the same texts with other characters in the place
\* of the braces does, with the braces where those characters are: the
\* texts appear literally, the subtitle is not put into the title, and the
\* blocks are spliced, or the export is rejected, at the template's own
\* content marker only.
C29_ValuesAreNotMarkers ==
    (entry = "exportToWord" /\ docx.ok /\ wordPc \in {"generated", "failed", "done"}) =>
        LET literal == RichDocument(Neutral(docTitle), Neutral(docSubtitle))
        IN  /\ error = literal.error
            /\ error = "none" =>
                   /\ updatedXml = Restored(literal.xml)
                   /\ richCtx.header =
                          Restored(applyTemplatePlaceholders(docx.headerXml, Neutral(docTitle),
                                                             Neutral(docSubtitle)))

(***************************************************************************)
(* Properties of the termination of renderRichContent.                     *)
(***************************************************************************)
\* one iteration of the loop: one more block is placed, on the current page
\* or on one new page
OneBlockAtMostOnePage ==
    placed' # placed =>
        /\ Len(placed') = Len(placed) + 1
        /\ placed'[Len(placed')].height = measured[Len(placed')].height
        /\ Len(outPages') - Len(outPages) \in {0, 1}

\* the content pages are the one allocated before the loop and at most one
\* for each block placed
PagesBounded ==
    pc \in {"blocks", "labels", "done"} =>
        /\ Len(placed) <= Len(blocks)
        /\ Len(contentPages(outPages, 1)) >= 1
        /\ Len(contentPages(outPages, 1)) <= Len(placed) + 1

====
